---- MODULE Spec2Model ----
(***************************************************************************)
(* Model of neva: banks (balance sheet + injected valuation functions),    *)
(* the banking system that owns them, and the synchronous fixed-point      *)
(* iteration of the equity map (bank.py, bankingsystem.py, ibeval.py,      *)
(* ibeval_lender.py, exteval.py).                                          *)
(*                                                                         *)
(* Money amounts, equities, valuations and errors are exact rationals      *)
(* <<numerator, denominator>> in lowest terms with a positive denominator. *)
(* Python computes them in binary floating point; rounding is not          *)
(* modelled.                                                               *)
(***************************************************************************)
EXTENDS Integers, Sequences, FiniteSets, TLC

(***************************************************************************)
(* Exact rational arithmetic                                               *)
(***************************************************************************)
Abs(x) == IF x < 0 THEN -x ELSE x

RECURSIVE GCD(_, _)
GCD(a, b) == IF b = 0 THEN a ELSE GCD(b, a % b)

Rat(n, d) ==
    LET s == IF d < 0 THEN -1 ELSE 1
        g == GCD(Abs(n), Abs(d))
    IN  <<(s * n) \div g, (s * d) \div g>>

R(n) == <<n, 1>>

RAdd(a, b) == Rat(a[1] * b[2] + b[1] * a[2], a[2] * b[2])
RSub(a, b) == Rat(a[1] * b[2] - b[1] * a[2], a[2] * b[2])
RMul(a, b) == Rat(a[1] * b[1], a[2] * b[2])
RDiv(a, b) == Rat(a[1] * b[2], a[2] * b[1])
RNeg(a) == <<-a[1], a[2]>>
RAbs(a) == <<Abs(a[1]), a[2]>>
RLt(a, b) == a[1] * b[2] < b[1] * a[2]
RLe(a, b) == a[1] * b[2] <= b[1] * a[2]
RMax(a, b) == IF RLt(a, b) THEN b ELSE a
RPos(a) == a[1] > 0
RZero(a) == a[1] = 0

(***************************************************************************)
(* Bounds of the model                                                     *)
(***************************************************************************)
MaxAmount == 1
MaxIter == 2
MaxCalls == 1

\* The bank objects
Banks == {1, 2}

(***************************************************************************)
(* State                                                                   *)
(*   Bank objects (bank.py): one entry per object of Banks; `made` holds   *)
(*   the objects whose constructor has run.                                *)
(*   BankingSystem (bankingsystem.py): banks is the key order of the       *)
(*   OrderedDict self.banks; built tells whether the constructor has run.  *)
(*   fixedpoint_equity: pc is the position in the method, time, err,       *)
(*   equity_old, equity_new are its locals; errs lists the error of every  *)
(*   iteration of the current call; ncalls counts the calls made.          *)
(*   ret is the observable result of the last completed operation.         *)
(***************************************************************************)
VARIABLES made, extasset, extliab, ibliabtot, ibasset,
          exteval, ibeval, ibeval_lender, equity,
          built, banks, nbanks, tol, maxiter, save_history, history,
          pc, time, err, equity_old, equity_new, errs, ncalls,
          ret,
          name, sigma_asset, sigma_equity, source,
          extasset_old, extasset_new, sigma_asset_old, sigma_asset_new

bankVars == <<made, extasset, extliab, ibliabtot, ibasset,
              exteval, ibeval, ibeval_lender, equity>>
sysVars == <<built, banks, nbanks, tol, maxiter, save_history, history>>
solverVars == <<pc, time, err, equity_old, equity_new, errs, ncalls>>
\* Bank.name; the attributes sigma_asset (gbm.py BankGBM) and sigma_equity
\* (BankGBMse), NoAttr on objects that have none; the banks, nbanks and
\* history of the system a derived system was made from; the locals of the
\* solvers of adjust.py and gbm.py
extVars == <<name, sigma_asset, sigma_equity, source,
             extasset_old, extasset_new, sigma_asset_old, sigma_asset_new>>
vars == <<bankVars, sysVars, solverVars, ret, extVars>>

None == "None"

\* the value of sigma_asset and sigma_equity on an object that has no such
\* attribute (no rational: its denominator is 0)
NoAttr == <<0, 0>>

\* no system a derived system was made from
NoSource == [banks |-> <<>>, nbanks |-> 0, history |-> <<>>]

\* bank.py:85  name=" "
DefaultName == " "

(***************************************************************************)
(* Valuation functions.  A callable is a record [fn, p]: the library (or   *)
(* default) function and the parameter its closure fixes.                  *)
(***************************************************************************)
Val(fn, p) == [fn |-> fn, p |-> p]

\* bank.py:83  exteval=(lambda e, ea, el: ea-el)
exteval_default(e, ea, el) == RSub(ea, el)

\* exteval.py rogers_veraart(equity, extasset, extliab, alpha)
exteval_rogers_veraart(e, ea, el, alpha) ==
    IF RPos(e) THEN RSub(ea, el) ELSE RMul(alpha, RSub(ea, el))

\* exteval.py default_cost(equity, extasset, extliab, alpha)
exteval_default_cost(e, ea, el, alpha) ==
    IF RPos(e) THEN RSub(ea, el) ELSE RSub(RMul(alpha, ea), el)

ApplyExteval(f, e, ea, el) ==
    CASE f.fn = "default" -> exteval_default(e, ea, el)
      [] f.fn = "rogers_veraart" -> exteval_rogers_veraart(e, ea, el, f.p)
      [] f.fn = "default_cost" -> exteval_default_cost(e, ea, el, f.p)

\* bank.py:84  ibeval_lender=(lambda e: 1)
ibeval_lender_default(e) == R(1)

\* ibeval_lender.py rogers_veraart(equity, beta)
ibeval_lender_rogers_veraart(e, beta) == IF RPos(e) THEN R(1) ELSE beta

ApplyLender(f, e) ==
    CASE f.fn = "default" -> ibeval_lender_default(e)
      [] f.fn = "rogers_veraart" -> ibeval_lender_rogers_veraart(e, f.p)

ibeval_default_zero(e) == R(0)

\* bank.py:84  ibeval=(lambda e: 1)
ibeval_default(e) == R(1)

\* a valuation that rises when the equity falls
furfine_inverted(e) == IF RPos(e) THEN R(0) ELSE R(1)

\* ibeval.py furfine(equity)
furfine(e) == IF RPos(e) THEN R(1) ELSE R(0)

\* ibeval.py roukny_battiston(equity, rho)
roukny_battiston(e, rho) == IF RPos(e) THEN R(1) ELSE rho

\* ibeval.py eisenberg_noe(equity, liabtot); divides by liabtot when
\* equity <= 0
eisenberg_noe(e, liabtot) ==
    IF RPos(e) THEN R(1) ELSE RMax(RDiv(RAdd(e, liabtot), liabtot), R(0))

eisenberg_noe_raises(e, liabtot) == ~RPos(e) /\ RZero(liabtot)

\* ibeval.py exante_en_blackcox(equity, rho, prob_def)
exante_en_blackcox(e, rho, prob_def) ==
    RAdd(R(1), RMul(RSub(rho, R(1)), prob_def))

\* ibeval.py rel_loss(equity, equity0); divides by equity0 only when
\* 0 < equity <= equity0, so equity0 is not zero there
rel_loss(e, equity0) ==
    IF RLt(equity0, e) THEN R(0)
    ELSE IF RPos(e) THEN RSub(R(1), RDiv(e, equity0))
    ELSE R(1)

\* ibeval.py lin_dr(equity, equity0)
lin_dr(e, equity0) == exante_en_blackcox(e, R(0), rel_loss(e, equity0))

\* The interbank valuation of bank b at equity e.  eisenberg_noe is injected
\* as lambda e, bnk=bnk: ibeval.eisenberg_noe(e, bnk.ibliabtot) (utils.py:80).
ApplyIbeval(f, b, e) ==
    CASE f.fn = "default" -> ibeval_default(e)
      [] f.fn = "furfine" -> furfine(e)
      [] f.fn = "roukny_battiston" -> roukny_battiston(e, f.p)
      [] f.fn = "eisenberg_noe" -> eisenberg_noe(e, ibliabtot[b])
      [] f.fn = "lin_dr" -> lin_dr(e, f.p)

IbevalRaises(f, b, e) ==
    f.fn = "eisenberg_noe" /\ eisenberg_noe_raises(e, ibliabtot[b])

(***************************************************************************)
(* Bank (bank.py)                                                          *)
(***************************************************************************)
\* sum(...) over a sequence of rationals, left to right from 0
RECURSIVE SumSeq(_)
SumSeq(s) == IF s = <<>> THEN R(0) ELSE RAdd(SumSeq(SubSeq(s, 1, Len(s) - 1)), s[Len(s)])

IbassetTot_first(edges) ==
    IF edges = <<>> THEN R(0) ELSE edges[1][2]

\* The sum of Bank.get_ibassettot over the edge list self.ibasset
IbassetTot(edges) == SumSeq([k \in 1 .. Len(edges) |-> edges[k][2]])

\* Bank.get_ibassettot
get_ibassettot(b) == IbassetTot(ibasset[b])

NaiveEquity_noliab(ea, el, edges, il) == RAdd(RSub(ea, el), IbassetTot(edges))

\* The expression of Bank.get_naiveequity on the attributes extasset,
\* extliab, ibasset, ibliabtot
NaiveEquity(ea, el, edges, il) ==
    RSub(RAdd(RSub(ea, el), IbassetTot(edges)), il)

\* Bank.get_naiveequity
get_naiveequity(b) ==
    NaiveEquity(extasset[b], extliab[b], ibasset[b], ibliabtot[b])

get_leastequity_sign(b) == RSub(extliab[b], ibliabtot[b])

\* Bank.get_leastequity
get_leastequity(b) == RSub(RNeg(extliab[b]), ibliabtot[b])

\* The generator of Bank.eval_equity, ibasset * borrower.ibeval(borrower.equity),
\* when the banks' equity attributes hold eq
IbassetValues(b, eq) ==
    [k \in 1 .. Len(ibasset[b]) |->
        RMul(ibasset[b][k][2],
             ApplyIbeval(ibeval[ibasset[b][k][1]], ibasset[b][k][1],
                         eq[ibasset[b][k][1]]))]

EquityMap_noliab(b, eq) ==
    RAdd(ApplyExteval(exteval[b], eq[b], extasset[b], extliab[b]),
         RMul(ApplyLender(ibeval_lender[b], eq[b]),
              SumSeq(IbassetValues(b, eq))))

\* The expression Bank.eval_equity returns when the banks' equity attributes
\* hold eq
EquityMap(b, eq) ==
    RSub(RAdd(ApplyExteval(exteval[b], eq[b], extasset[b], extliab[b]),
              RMul(ApplyLender(ibeval_lender[b], eq[b]),
                   SumSeq(IbassetValues(b, eq)))),
         ibliabtot[b])

\* A valuation function called by Bank.eval_equity raises
EquityMapRaises(b, eq) ==
    \E k \in 1 .. Len(ibasset[b]) :
        IbevalRaises(ibeval[ibasset[b][k][1]], ibasset[b][k][1],
                     eq[ibasset[b][k][1]])

\* Bank.eval_equity: the one-step valuation, read from the banks' current
\* equity attributes
eval_equity(b) == EquityMap(b, equity)

eval_equity_raises(b) == EquityMapRaises(b, equity)

(***************************************************************************)
(* BankingSystem (bankingsystem.py)                                        *)
(***************************************************************************)
\* The position of bank b in the key order of self.banks (0 when absent)
IndexOf(b) ==
    IF \E i \in 1 .. Len(banks) : banks[i] = b
    THEN CHOOSE i \in 1 .. Len(banks) : banks[i] = b
    ELSE 0

\* BankingSystem.get_equity
get_equity == [i \in 1 .. Len(banks) |-> equity[banks[i]]]

\* BankingSystem.get_naiveequity
sys_get_naiveequity == [i \in 1 .. Len(banks) |-> get_naiveequity(banks[i])]

\* an assignment that also reaches the bank each bank of the system was
\* created from, as if the two were one object
set_equity_shared(equity_vec) ==
    [b \in DOMAIN equity |->
        IF IndexOf(b) # 0 THEN equity_vec[IndexOf(b)]
        ELSE IF IndexOf(b + Cardinality(Banks)) # 0
             THEN equity_vec[IndexOf(b + Cardinality(Banks))]
             ELSE equity[b]]

\* BankingSystem.set_equity: bnk.equity = equity_new[idx] for the banks of
\* the system, in key order
set_equity(equity_vec) ==
    [b \in DOMAIN equity |-> IF IndexOf(b) = 0 THEN equity[b] ELSE equity_vec[IndexOf(b)]]

ErrTerm_signed(old, new) ==
    IF ~RZero(old) \/ ~RZero(new)
    THEN RDiv(RSub(old, new), RAdd(RAbs(old), RAbs(new)))
    ELSE R(0)

\* One term of the error sum of fixedpoint_equity
ErrTerm(old, new) ==
    IF ~RZero(old) \/ ~RZero(new)
    THEN RDiv(RAbs(RSub(old, new)), RAdd(RAbs(old), RAbs(new)))
    ELSE R(0)

IterError_skiplast(old, new, n) ==
    RMul(R(2), SumSeq([idx \in 1 .. n - 1 |-> ErrTerm(old[idx], new[idx])]))

\* err = 2 * sum(... for idx in range(self.nbanks))
IterError(old, new, n) ==
    RMul(R(2), SumSeq([idx \in 1 .. n |-> ErrTerm(old[idx], new[idx])]))

InitialErr_tol(t) == t

\* err = self.tol * 10 on entry to fixedpoint_equity
InitialErr(t) == RMul(t, R(10))

LoopCondition_nocap == RLt(tol, err)

\* The loop condition of fixedpoint_equity
LoopCondition == RLt(tol, err) /\ time < maxiter

\* time += 1
NextTime(t) == t + 1

EquityAfterEval_stored(b, value) == [equity EXCEPT ![b] = value]

\* Bank.eval_equity returns the new equity and does not store it
EquityAfterEval(b, value) == equity

RecordSnapshot_always(h, t, eq) == Append(h, eq)

\* if self.save_history and time == 0: self.history.append(equity_old)
RecordSnapshot(h, t, eq) == IF t = 0 THEN Append(h, eq) ELSE h

Result(op, val) == [op |-> op, val |-> val]

\* fixedpoint_equity is entered: time = 0, err = self.tol * 10
FixedpointEquityCall ==
    /\ built
    /\ pc \in {"idle", "done", "raised"}
    /\ ncalls < MaxCalls
    /\ ncalls' = ncalls + 1
    /\ time' = 0
    /\ err' = InitialErr(tol)
    /\ errs' = <<>>
    /\ equity_old' = <<>>
    /\ equity_new' = <<>>
    /\ pc' = "loop"
    /\ ret' = Result("fixedpoint_equity", "running")
    /\ UNCHANGED <<bankVars, sysVars>>
    /\ UNCHANGED extVars

\* The while test; when it holds the iteration starts with the snapshot
\* equity_old = self.get_equity() (recorded in the history at time 0),
\* otherwise the method returns None.
LoopTest ==
    /\ pc = "loop"
    /\ IF LoopCondition
       THEN /\ equity_old' = get_equity
            /\ history' = IF save_history
                          THEN RecordSnapshot(history, time, get_equity)
                          ELSE history
            /\ equity_new' = <<>>
            /\ pc' = "eval"
            /\ UNCHANGED ret
       ELSE /\ pc' = "done"
            /\ ret' = Result("fixedpoint_equity", None)
            /\ UNCHANGED <<equity_old, equity_new, history>>
    /\ UNCHANGED <<bankVars, built, banks, nbanks, tol, maxiter, save_history,
                   time, err, errs, ncalls>>
    /\ UNCHANGED extVars

\* One element of equity_new = [bnk.eval_equity() for bnk in self.banks]
EvalBank ==
    /\ pc = "eval"
    /\ Len(equity_new) < Len(banks)
    /\ LET b == banks[Len(equity_new) + 1]
       IN  IF eval_equity_raises(b)
           THEN /\ pc' = "raised"
                /\ ret' = Result("fixedpoint_equity", "ZeroDivisionError")
                /\ UNCHANGED <<equity_new, equity>>
           ELSE /\ equity_new' = Append(equity_new, eval_equity(b))
                /\ equity' = EquityAfterEval(b, eval_equity(b))
                /\ UNCHANGED <<pc, ret>>
    /\ UNCHANGED <<made, extasset, extliab, ibliabtot, ibasset,
                   exteval, ibeval, ibeval_lender, sysVars,
                   time, err, equity_old, errs, ncalls>>
    /\ UNCHANGED extVars

\* The rest of the iteration: err, set_equity(equity_new), time += 1 and the
\* history record
Commit ==
    /\ pc = "eval"
    /\ Len(equity_new) = Len(banks)
    /\ err' = IterError(equity_old, equity_new, nbanks)
    /\ errs' = Append(errs, err')
    /\ equity' = set_equity(equity_new)
    /\ time' = NextTime(time)
    /\ history' = IF save_history THEN Append(history, equity_new) ELSE history
    /\ pc' = "loop"
    /\ UNCHANGED <<made, extasset, extliab, ibliabtot, ibasset,
                   exteval, ibeval, ibeval_lender,
                   built, banks, nbanks, tol, maxiter, save_history,
                   equity_old, equity_new, ncalls, ret>>
    /\ UNCHANGED extVars

Next ==
    \/ FixedpointEquityCall
    \/ LoopTest
    \/ EvalBank
    \/ Commit

(***************************************************************************)
(* Spec: a banking system freshly constructed over banks drawn from small  *)
(* sets, on which fixedpoint_equity is called.                             *)
(***************************************************************************)
Half == Rat(1, 2)
Amounts == {R(a) : a \in 0 .. MaxAmount}
UnitAmounts == {R(0), R(1)}
UnitFaces == {R(1)}

EdgeLists(b, faces) ==
    {<<>>} \cup {<< <<c, f>> >> : c \in Banks \ {b}, f \in faces}

EdgeMaps(faces) ==
    {f \in [Banks -> UNION {EdgeLists(b, faces) : b \in Banks}] :
        \A b \in Banks : f[b] \in EdgeLists(b, faces)}

Default == Val("default", R(0))

\* objects of class Bank with the default name, no derived system, and the
\* solvers of the derived classes not entered
PlainBanks ==
    /\ name = [b \in Banks |-> DefaultName]
    /\ sigma_asset = [b \in Banks |-> NoAttr]
    /\ sigma_equity = [b \in Banks |-> NoAttr]
    /\ source = NoSource
    /\ extasset_old = <<>>
    /\ extasset_new = <<>>
    /\ sigma_asset_old = <<>>
    /\ sigma_asset_new = <<>>
\* the Rogers-Veraart pair: exteval with alpha = 0, ibeval_lender with beta = 1/2
RVExteval == Val("rogers_veraart", R(0))
RVLender == Val("rogers_veraart", Half)
Ibevals == {Default, Val("furfine", R(0)), Val("eisenberg_noe", R(0))}
Tols == {Half, Rat(1, 10)}

\* The state left by BankingSystem.__init__(banks_list, tol, maxiter, False)
\* and no call of fixedpoint_equity yet
Constructed(banks_list) ==
    /\ made = Banks
    /\ banks = banks_list
    /\ nbanks = Len(banks_list)
    /\ built = TRUE
    /\ equity = [b \in Banks |-> get_naiveequity(b)]
    /\ save_history = FALSE
    /\ history = <<>>
    /\ pc = "idle"
    /\ time = 0
    /\ err = R(0)
    /\ equity_old = <<>>
    /\ equity_new = <<>>
    /\ errs = <<>>
    /\ ncalls = 0
    /\ ret = Result("BankingSystem", None)

\* Two banks with unit balance sheets, any of the valuation functions
InitSmall ==
    /\ extasset \in {f \in [Banks -> Amounts] : f[2] \in UnitAmounts}
    /\ extliab \in [Banks -> UnitAmounts]
    /\ ibliabtot \in [Banks -> UnitAmounts]
    /\ ibasset \in EdgeMaps(UnitFaces)
    /\ \E rv \in BOOLEAN :
          /\ exteval = [b \in Banks |-> IF rv THEN RVExteval ELSE Default]
          /\ ibeval_lender = [b \in Banks |-> IF rv THEN RVLender ELSE Default]
    /\ ibeval \in [Banks -> Ibevals]
    /\ tol \in Tols
    /\ maxiter \in 1 .. MaxIter
    /\ Constructed(<<1, 2>>)
    /\ PlainBanks

\* The two-bank scenario of tests/test_bank.py (TestTwoBanks), default
\* valuation functions, default tol and maxiter
InitTwoBanks ==
    /\ extasset = <<R(1), R(0)>>
    /\ extliab = <<Half, R(0)>>
    /\ ibliabtot = <<Rat(1, 5), Rat(1, 10)>>
    /\ ibasset = << << <<2, Rat(1, 10)>> >>, <<>> >>
    /\ exteval = [b \in Banks |-> Default]
    /\ ibeval_lender = [b \in Banks |-> Default]
    /\ ibeval = [b \in Banks |-> Default]
    /\ tol = Rat(1, 1000)
    /\ maxiter = 100
    /\ Constructed(<<1, 2>>)
    /\ PlainBanks

\* A system of the single bank 1, without interbank edges
InitOneBank ==
    /\ extasset \in [Banks -> Amounts]
    /\ extliab \in [Banks -> UnitAmounts]
    /\ ibliabtot = [b \in Banks |-> R(0)]
    /\ ibasset = [b \in Banks |-> <<>>]
    /\ exteval = [b \in Banks |-> Default]
    /\ ibeval_lender = [b \in Banks |-> Default]
    /\ ibeval = [b \in Banks |-> Default]
    /\ tol \in Tols
    /\ maxiter \in 1 .. MaxIter
    /\ Constructed(<<1>>)
    /\ PlainBanks

\* Two banks valued with Eisenberg-Noe and Linear DebtRank (equity0 = 1)
InitDebtRank ==
    /\ extasset \in [Banks -> UnitAmounts]
    /\ extliab = [b \in Banks |-> R(0)]
    /\ ibliabtot \in [Banks -> {R(0), R(1), R(2)}]
    /\ ibasset \in EdgeMaps(UnitFaces)
    /\ exteval = [b \in Banks |-> Default]
    /\ ibeval_lender = [b \in Banks |-> Default]
    /\ ibeval \in [Banks -> {Val("eisenberg_noe", R(0)), Val("lin_dr", R(1))}]
    /\ tol \in Tols
    /\ maxiter \in 1 .. MaxIter
    /\ Constructed(<<1, 2>>)
    /\ PlainBanks

Init == InitSmall \/ InitTwoBanks \/ InitOneBank \/ InitDebtRank

Spec == Init /\ [][Next]_vars

(***************************************************************************)
(* SpecBank: one bank is constructed, given interbank assets and a new     *)
(* total of interbank liabilities; its counterparty is Bank().             *)
(* SpecBuild: banks are constructed, given interbank assets and interbank  *)
(* liabilities, assembled into a banking system, and the system's          *)
(* consistency check is called.                                            *)
(***************************************************************************)
\* Bank.__init__ with the default valuation functions; equity_arg is None or
\* the equity passed
BankInit(b, ea, el, il, equity_arg) ==
    /\ b \notin made
    /\ ~built
    /\ made' = made \cup {b}
    /\ extasset' = [extasset EXCEPT ![b] = ea]
    /\ extliab' = [extliab EXCEPT ![b] = el]
    /\ exteval' = [exteval EXCEPT ![b] = Default]
    /\ ibasset' = [ibasset EXCEPT ![b] = <<>>]
    /\ ibliabtot' = [ibliabtot EXCEPT ![b] = il]
    /\ ibeval' = [ibeval EXCEPT ![b] = Default]
    /\ ibeval_lender' = [ibeval_lender EXCEPT ![b] = Default]
    /\ equity' = [equity EXCEPT ![b] =
                     IF equity_arg = None THEN NaiveEquity(ea, el, <<>>, il)
                     ELSE equity_arg]
    /\ ret' = Result("Bank", [bank |-> b, equity_arg |-> equity_arg])
    /\ UNCHANGED <<sysVars, solverVars>>
    /\ name' = [name EXCEPT ![b] = DefaultName]
    /\ UNCHANGED <<sigma_asset, sigma_equity, source, extasset_old,
                   extasset_new, sigma_asset_old, sigma_asset_new>>

\* Bank.set_ibasset with a well-formed sequence of (Bank, number) pairs
SetIbasset(b, edges) ==
    /\ b \in made
    /\ \A k \in 1 .. Len(edges) : edges[k][1] \in made
    /\ ibasset' = [ibasset EXCEPT ![b] = edges]
    /\ UNCHANGED <<made, extasset, extliab, ibliabtot, exteval, ibeval,
                   ibeval_lender, sysVars, solverVars>>
    /\ equity' = [equity EXCEPT ![b] =
                     NaiveEquity(extasset[b], extliab[b], edges, ibliabtot[b])]
    /\ ret' = Result("set_ibasset", None)
    /\ UNCHANGED extVars

\* bnk.ibliabtot = il, assigned by the caller
SetIbliabtot(b, il) ==
    /\ b \in made
    /\ ibliabtot' = [ibliabtot EXCEPT ![b] = il]
    /\ ret' = Result("ibliabtot", None)
    /\ UNCHANGED <<made, extasset, extliab, ibasset, exteval, ibeval,
                   ibeval_lender, equity, sysVars, solverVars>>
    /\ UNCHANGED extVars

\* The keys of OrderedDict self.banks after inserting the list: the distinct
\* banks in order of first occurrence
RECURSIVE Distinct(_)
Distinct(list) ==
    IF list = <<>> THEN <<>>
    ELSE LET front == Distinct(SubSeq(list, 1, Len(list) - 1))
             last == list[Len(list)]
         IN  IF \E i \in 1 .. Len(front) : front[i] = last
             THEN front
             ELSE Append(front, last)

\* BankingSystem.__init__(banks_list, tol, maxiter, save_history=False)
NewBankingSystem(banks_list, t, m) ==
    /\ ~built
    /\ \A i \in 1 .. Len(banks_list) : banks_list[i] \in made
    /\ built' = TRUE
    /\ banks' = Distinct(banks_list)
    /\ equity' = [b \in DOMAIN equity |->
                    IF \E i \in 1 .. Len(banks_list) : banks_list[i] = b
                    THEN get_naiveequity(b) ELSE equity[b]]
    /\ nbanks' = Len(banks_list)
    /\ tol' = t
    /\ maxiter' = m
    /\ save_history' = FALSE
    /\ history' = <<>>
    /\ ret' = Result("BankingSystem", None)
    /\ UNCHANGED <<made, extasset, extliab, ibliabtot, ibasset,
                   exteval, ibeval, ibeval_lender, solverVars>>
    /\ UNCHANGED extVars

\* The (borrower, face value) pairs visited by the loops of validate_ibasset:
\* for lender in self.banks: for borrower, ibasset in lender.ibasset
RECURSIVE EdgesOf(_)
EdgesOf(lenders) ==
    IF lenders = <<>> THEN <<>>
    ELSE EdgesOf(SubSeq(lenders, 1, Len(lenders) - 1)) \o ibasset[lenders[Len(lenders)]]

\* ibliabtot[borrower] += ibasset over the visited pairs, from 0.0 for every
\* bank of the system.  A borrower that is no key of the dictionary raises
\* KeyError: the field raised records it.
RECURSIVE Accumulate(_, _)
Accumulate(edges, acc) ==
    IF edges = <<>> THEN [raised |-> FALSE, dict |-> acc]
    ELSE LET before == Accumulate(SubSeq(edges, 1, Len(edges) - 1), acc)
             e == edges[Len(edges)]
         IN  IF before.raised \/ e[1] \notin DOMAIN before.dict
             THEN [raised |-> TRUE, dict |-> acc]
             ELSE [raised |-> FALSE,
                   dict |-> [before.dict EXCEPT ![e[1]] = RAdd(@, e[2])]]

\* BankingSystem.validate_ibasset: "True", "False" or "KeyError"
validate_ibasset ==
    LET acc == Accumulate(EdgesOf(banks),
                          [b \in {banks[i] : i \in 1 .. Len(banks)} |-> R(0)])
    IN  IF acc.raised THEN "KeyError"
        ELSE IF [i \in 1 .. Len(banks) |-> acc.dict[banks[i]]]
                = [i \in 1 .. Len(banks) |-> ibliabtot[banks[i]]]
             THEN "True" ELSE "False"

\* bnksys.validate_ibasset() called on the constructed system
ValidateIbasset ==
    /\ built
    /\ pc = "idle"
    /\ ret' = Result("validate_ibasset", validate_ibasset)
    /\ UNCHANGED <<bankVars, sysVars, solverVars>>
    /\ UNCHANGED extVars

MaxEdges == 2

BuildAmounts == {R(a) : a \in -1 .. MaxAmount}
BuildLiabs == {R(a) : a \in 0 .. MaxAmount + 1}
BuildFaces == {R(-1), R(1)}
\* the total of interbank liabilities of the reconciliation example
SysLiabs == BuildLiabs \cup {Rat(9, 10)}

\* the sequences of at most n edges with the given face values
EdgeSeqs(n, faces) == UNION {[1 .. k -> (Banks \X faces)] : k \in 0 .. n}

BankLists == {<<1>>, <<2>>, <<1, 2>>, <<2, 1>>}

\* no bank constructed yet
InitBuild ==
    /\ made = {}
    /\ extasset = [b \in Banks |-> R(0)]
    /\ extliab = [b \in Banks |-> R(0)]
    /\ ibliabtot = [b \in Banks |-> R(0)]
    /\ ibasset = [b \in Banks |-> <<>>]
    /\ exteval = [b \in Banks |-> Default]
    /\ ibeval = [b \in Banks |-> Default]
    /\ ibeval_lender = [b \in Banks |-> Default]
    /\ equity = [b \in Banks |-> R(0)]
    /\ built = FALSE
    /\ banks = <<>>
    /\ nbanks = 0
    /\ tol = Rat(1, 1000)
    /\ maxiter = 100
    /\ save_history = FALSE
    /\ history = <<>>
    /\ pc = "idle"
    /\ time = 0
    /\ err = R(0)
    /\ equity_old = <<>>
    /\ equity_new = <<>>
    /\ errs = <<>>
    /\ ncalls = 0
    /\ ret = Result("start", None)
    /\ PlainBanks

NextBuild ==
    \/ \E b \in Banks, il \in UnitAmounts : BankInit(b, R(0), R(0), il, None)
    \/ \E b \in Banks, edges \in EdgeSeqs(MaxEdges - 1, UnitFaces) :
          SetIbasset(b, edges)
    \/ \E b \in Banks, il \in SysLiabs : SetIbliabtot(b, il)
    \/ \E banks_list \in BankLists : NewBankingSystem(banks_list, Rat(1, 1000), 100)
    \/ ValidateIbasset

SpecBuild == InitBuild /\ [][NextBuild]_vars

\* the counterparty, bank 2, is Bank(); bank 1 is not constructed yet
InitBank ==
    /\ made = {2}
    /\ extasset = [b \in Banks |-> R(0)]
    /\ extliab = [b \in Banks |-> R(0)]
    /\ ibliabtot = [b \in Banks |-> R(0)]
    /\ ibasset = [b \in Banks |-> <<>>]
    /\ exteval = [b \in Banks |-> Default]
    /\ ibeval = [b \in Banks |-> Default]
    /\ ibeval_lender = [b \in Banks |-> Default]
    /\ equity = [b \in Banks |-> R(0)]
    /\ built = FALSE
    /\ banks = <<>>
    /\ nbanks = 0
    /\ tol = Rat(1, 1000)
    /\ maxiter = 100
    /\ save_history = FALSE
    /\ history = <<>>
    /\ pc = "idle"
    /\ time = 0
    /\ err = R(0)
    /\ equity_old = <<>>
    /\ equity_new = <<>>
    /\ errs = <<>>
    /\ ncalls = 0
    /\ ret = Result("start", None)
    /\ PlainBanks

NextBank ==
    \/ \E ea \in BuildAmounts, el \in UnitAmounts, il \in UnitAmounts,
          equity_arg \in {None, R(0)} : BankInit(1, ea, el, il, equity_arg)
    \/ \E edges \in EdgeSeqs(MaxEdges, BuildFaces) : SetIbasset(1, edges)
    \/ \E il \in BuildLiabs : SetIbliabtot(1, il)

SpecBank == InitBank /\ [][NextBank]_vars

(***************************************************************************)
(* SpecSetIbasset: Bank.set_ibasset called with arbitrary arguments.       *)
(* A Python value is a record: an argument [seq, items] and an item        *)
(* [seq, elems] tell whether they are a list/tuple and hold their members; *)
(* an element [t, bank, num] is a Bank object, a number or a string.       *)
(***************************************************************************)
BankElem(b) == [t |-> "Bank", bank |-> b, num |-> R(0)]
NumElem(x) == [t |-> "num", bank |-> 0, num |-> x]
StrElem == [t |-> "str", bank |-> 0, num |-> R(0)]

TupleItem(elems) == [seq |-> TRUE, elems |-> elems]
\* an item that is no list or tuple (a string, a Bank, a number)
ScalarItem == [seq |-> FALSE, elems |-> <<>>]

ListArg(items) == [seq |-> TRUE, items |-> items]
\* an argument that is no list or tuple
ScalarArg == [seq |-> FALSE, items |-> <<>>]

\* The exception the checks of set_ibasset raise on one item, or None:
\* not a list/tuple -> TypeError; item[0] and item[1] are read in this order
\* (IndexError when absent), `or` stops at the first failing test
ItemCheck(item) ==
    IF ~item.seq THEN "TypeError"
    ELSE IF Len(item.elems) < 1 THEN "IndexError"
    ELSE IF item.elems[1].t # "Bank" THEN "TypeError"
    ELSE IF Len(item.elems) < 2 THEN "IndexError"
    ELSE IF item.elems[2].t # "num" THEN "TypeError"
    ELSE None

\* The exception raised by the checks of set_ibasset, or None: the first
\* failing item in list order decides
ArgCheck(arg) ==
    IF ~arg.seq THEN "TypeError"
    ELSE IF \E k \in 1 .. Len(arg.items) : ItemCheck(arg.items[k]) # None
    THEN ItemCheck(arg.items[
             CHOOSE k \in 1 .. Len(arg.items) :
                 /\ ItemCheck(arg.items[k]) # None
                 /\ \A j \in 1 .. k - 1 : ItemCheck(arg.items[j]) = None])
    ELSE None

\* The list stored in self.ibasset: every item as the tuple of its members
\* (bank, number, further members)
StoredItem(item) ==
    [i \in 1 .. Len(item.elems) |->
        IF i = 1 THEN item.elems[i].bank ELSE item.elems[i].num]

StoredIbasset(arg) == [k \in 1 .. Len(arg.items) |-> StoredItem(arg.items[k])]

\* `for borrower, ibasset in self.ibasset` of get_ibassettot raises
\* ValueError on an item that does not unpack into two
UnpackRaises(edges) == \E k \in 1 .. Len(edges) : Len(edges[k]) # 2

\* Bank.set_ibasset(arg): the checks, self.ibasset = ibasset, then
\* self.equity = self.get_naiveequity()
SetIbassetArg(b, arg) ==
    /\ b \in made
    /\ IF ArgCheck(arg) # None
       THEN /\ ret' = Result("set_ibasset", ArgCheck(arg))
            /\ UNCHANGED <<ibasset, equity>>
       ELSE /\ ibasset' = [ibasset EXCEPT ![b] = StoredIbasset(arg)]
            /\ IF UnpackRaises(StoredIbasset(arg))
               THEN /\ ret' = Result("set_ibasset", "ValueError")
                    /\ UNCHANGED equity
               ELSE /\ equity' = [equity EXCEPT ![b] =
                           NaiveEquity(extasset[b], extliab[b],
                                       StoredIbasset(arg), ibliabtot[b])]
                    /\ ret' = Result("set_ibasset", None)
    /\ UNCHANGED <<made, extasset, extliab, ibliabtot, exteval, ibeval,
                   ibeval_lender, sysVars, solverVars, extVars>>

\* items given to set_ibasset: strings, a Bank or a number outside a pair,
\* tuples of no, one, two and three members
IbassetItems ==
    {ScalarItem,
     TupleItem(<<>>),
     TupleItem(<<BankElem(2)>>),
     TupleItem(<<BankElem(2), NumElem(R(1))>>),
     TupleItem(<<BankElem(1), NumElem(R(2))>>),
     TupleItem(<<BankElem(2), StrElem>>),
     TupleItem(<<StrElem, NumElem(R(1))>>),
     TupleItem(<<NumElem(R(1)), BankElem(2)>>),
     TupleItem(<<BankElem(2), NumElem(R(1)), NumElem(R(1))>>)}

IbassetArgs ==
    {ScalarArg} \cup
    {ListArg(items) : items \in UNION {[1 .. n -> IbassetItems] : n \in 0 .. MaxEdges}}

\* two banks constructed; bank 1 may hold an edge and any equity
InitSetIbasset ==
    /\ made = Banks
    /\ extasset \in {f \in [Banks -> UnitAmounts] : f[2] = R(0)}
    /\ extliab = [b \in Banks |-> R(0)]
    /\ ibliabtot = [b \in Banks |-> R(0)]
    /\ ibasset \in {f \in [Banks -> {<<>>, << <<2, R(1)>> >>}] : f[2] = <<>>}
    /\ exteval = [b \in Banks |-> Default]
    /\ ibeval = [b \in Banks |-> Default]
    /\ ibeval_lender = [b \in Banks |-> Default]
    /\ equity \in {f \in [Banks -> {R(0), R(5)}] : f[2] = R(0)}
    /\ built = FALSE
    /\ banks = <<>>
    /\ nbanks = 0
    /\ tol = Rat(1, 1000)
    /\ maxiter = 100
    /\ save_history = FALSE
    /\ history = <<>>
    /\ pc = "idle"
    /\ time = 0
    /\ err = R(0)
    /\ equity_old = <<>>
    /\ equity_new = <<>>
    /\ errs = <<>>
    /\ ncalls = 0
    /\ ret = Result("start", None)
    /\ PlainBanks

NextSetIbasset == \E arg \in IbassetArgs : SetIbassetArg(1, arg)

SpecSetIbasset == InitSetIbasset /\ [][NextSetIbasset]_vars

(***************************************************************************)
(* SpecWrap: a banking system is constructed, possibly solved, and a       *)
(* derived system is made from it by BankingSystemAdjust.from_bankingsystem*)
(* (adjust.py), BankingSystemGBM.with_sigma_asset or                       *)
(* BankingSystemGBMse.with_sigma_equity (gbm.py).  The i-th bank of the    *)
(* derived system is the new object NewId(i).                              *)
(***************************************************************************)
NewId(i) == Cardinality(Banks) + i

Objects == Banks \cup {NewId(i) : i \in 1 .. Cardinality(Banks)}

\* the objects created from the banks of the system, and the bank each is
\* created from: [... for bnk in bnksys.banks]
IsNew(x) == \E i \in 1 .. Len(banks) : x = NewId(i)
SourceOf(x) == banks[x - Cardinality(Banks)]

\* cls(bnk.extasset, bnk.extliab, ...): the attribute of the source bank
CopyAttr(f) == [x \in DOMAIN f |-> IF IsNew(x) THEN f[SourceOf(x)] ELSE f[x]]

\* bnksys.banksbyname[nm]: the last bank of the list with this name
BanksByName(list, nm) ==
    list[CHOOSE i \in 1 .. Len(list) :
            /\ name[list[i]] = nm
            /\ \A j \in i + 1 .. Len(list) : name[list[j]] # nm]

\* for new_borrower in banks: if new_borrower.name == old_borrower.name:
\* the edges appended for one edge of the old lender
RECURSIVE Matching(_, _, _)
Matching(n, nm, amount) ==
    IF n = 0 THEN <<>>
    ELSE Matching(n - 1, nm, amount) \o
         (IF name[banks[n]] = nm THEN << <<NewId(n), amount>> >> ELSE <<>>)

\* for old_borrower, amount in old_lender.ibasset: ... append
RECURSIVE RelinkEdges(_)
RelinkEdges(old_edges) ==
    IF old_edges = <<>> THEN <<>>
    ELSE RelinkEdges(SubSeq(old_edges, 1, Len(old_edges) - 1))
         \o Matching(Len(banks), name[old_edges[Len(old_edges)][1]],
                     old_edges[Len(old_edges)][2])

Relinked_dropped(x) ==
    LET old_edges == ibasset[BanksByName(banks, name[SourceOf(x)])]
    IN  RelinkEdges(SubSeq(old_edges, 1, Len(old_edges) - 1))

\* the ibasset of the new lender x after _from_bankingsystem
Relinked(x) == RelinkEdges(ibasset[BanksByName(banks, name[SourceOf(x)])])

NewSystemEquity_kept(old, naive) == old

\* self.set_equity(self.get_naiveequity()) of BankingSystem.__init__ on a
\* bank created with equity old
NewSystemEquity(old, naive) == naive

\* gbm.py sigma_asset_simple(equity, extasset, sigma_equity)
sigma_asset_simple(e, ea, se) == RMul(RDiv(e, ea), se)

\* equity / extasset raises ZeroDivisionError
sigma_asset_simple_raises(e, ea, se) == RZero(ea)

\* BankingSystem.get_ibasset_matrix of the system with key order list and
\* nbanks = n: exposures[idx_l][idx_b] = amount for every edge in order, so
\* the last edge to a borrower stays
get_ibasset_matrix(list, n) ==
    [l \in 1 .. n |-> [c \in 1 .. n |->
        LET edges == ibasset[list[l]]
            hits == {k \in 1 .. Len(edges) : edges[k][1] = list[c]}
        IN  IF hits = {} THEN R(0)
            ELSE edges[CHOOSE k \in hits : \A j \in hits : j <= k][2]]]

\* from_bankingsystem / with_sigma_asset / with_sigma_equity (kind) with the
\* volatilities sig: the new banks, _from_bankingsystem, and the
\* constructor of the derived system
Wrap(kind, sig) ==
    /\ built
    /\ source = NoSource
    /\ pc \in {"idle", "done", "raised"}
    /\ IF kind = "with_sigma_equity" /\
          \E i \in 1 .. Len(banks) :
              sigma_asset_simple_raises(equity[banks[i]], extasset[banks[i]], sig)
       THEN /\ ret' = Result(kind, "ZeroDivisionError")
            /\ UNCHANGED <<bankVars, sysVars, name, sigma_asset, sigma_equity,
                           source>>
       ELSE /\ made' = made \cup {x \in Objects : IsNew(x)}
            /\ extasset' = CopyAttr(extasset)
            /\ extliab' = CopyAttr(extliab)
            /\ exteval' = CopyAttr(exteval)
            /\ ibliabtot' = CopyAttr(ibliabtot)
            /\ ibeval' = CopyAttr(ibeval)
            /\ ibeval_lender' = CopyAttr(ibeval_lender)
            /\ name' = CopyAttr(name)
            /\ ibasset' = [x \in DOMAIN ibasset |->
                             IF IsNew(x) THEN Relinked(x) ELSE ibasset[x]]
            /\ equity' = [x \in DOMAIN equity |->
                  IF IsNew(x)
                  THEN NewSystemEquity(
                           equity[SourceOf(x)],
                           NaiveEquity(extasset[SourceOf(x)], extliab[SourceOf(x)],
                                       Relinked(x), ibliabtot[SourceOf(x)]))
                  ELSE equity[x]]
            /\ sigma_asset' = [x \in DOMAIN sigma_asset |->
                  IF ~IsNew(x) THEN sigma_asset[x]
                  ELSE CASE kind = "from_bankingsystem" -> NoAttr
                         [] kind = "with_sigma_asset" -> sig
                         [] kind = "with_sigma_equity" ->
                              sigma_asset_simple(equity[SourceOf(x)],
                                                 extasset[SourceOf(x)], sig)]
            /\ sigma_equity' = [x \in DOMAIN sigma_equity |->
                  IF IsNew(x) /\ kind = "with_sigma_equity"
                  THEN sig ELSE sigma_equity[x]]
            /\ source' = [banks |-> banks, nbanks |-> nbanks, history |-> history]
            /\ banks' = [i \in 1 .. Len(banks) |-> NewId(i)]
            /\ nbanks' = Len(banks)
            /\ history' = <<>>
            /\ ret' = Result(kind, None)
            /\ UNCHANGED <<built, tol, maxiter, save_history>>
    /\ UNCHANGED <<solverVars, extasset_old, extasset_new, sigma_asset_old,
                   sigma_asset_new>>

NameA == "A"
NameB == "B"

\* two banks constructed with names; bank 1 lends in up to MaxEdges edges,
\* bank 2 (furfine as a borrower) in at most one; bank 1 was given an equity
\* or none
InitWrap ==
    /\ made = Banks
    /\ name \in {f \in [Objects -> {NameA, NameB}] :
                    \A x \in Objects \ Banks : f[x] = NameA}
    /\ extasset \in {f \in [Objects -> UnitAmounts] :
                        f[1] = R(1) /\ \A x \in Objects \ Banks : f[x] = R(0)}
    /\ extliab = [x \in Objects |-> IF x = 2 THEN R(2) ELSE R(0)]
    /\ ibliabtot = [x \in Objects |-> R(0)]
    /\ \E e1 \in EdgeSeqs(MaxEdges, {R(1), R(2)}), e2 \in {<<>>, << <<1, R(1)>> >>} :
          ibasset = [x \in Objects |-> IF x = 1 THEN e1 ELSE IF x = 2 THEN e2 ELSE <<>>]
    /\ exteval = [x \in Objects |-> Default]
    /\ ibeval = [x \in Objects |-> IF x = 2 THEN Val("furfine", R(0)) ELSE Default]
    /\ ibeval_lender = [x \in Objects |-> Default]
    /\ \E given \in BOOLEAN :
          equity = [x \in Objects |->
                      IF x \in Banks /\ ~(x = 1 /\ given) THEN get_naiveequity(x)
                      ELSE IF x = 1 THEN R(5) ELSE R(0)]
    /\ sigma_asset = [x \in Objects |-> NoAttr]
    /\ sigma_equity = [x \in Objects |-> NoAttr]
    /\ source = NoSource
    /\ extasset_old = <<>>
    /\ extasset_new = <<>>
    /\ sigma_asset_old = <<>>
    /\ sigma_asset_new = <<>>
    /\ built = FALSE
    /\ banks = <<>>
    /\ nbanks = 0
    /\ tol = Rat(1, 1000)
    /\ maxiter = 100
    /\ save_history = FALSE
    /\ history = <<>>
    /\ pc = "idle"
    /\ time = 0
    /\ err = R(0)
    /\ equity_old = <<>>
    /\ equity_new = <<>>
    /\ errs = <<>>
    /\ ncalls = 0
    /\ ret = Result("start", None)

WrapKinds == {"from_bankingsystem", "with_sigma_asset", "with_sigma_equity"}

NextWrap ==
    \/ \E banks_list \in {<<1>>, <<1, 2>>, <<2, 1>>} :
          NewBankingSystem(banks_list, Rat(1, 10), MaxIter)
    \/ FixedpointEquityCall
    \/ LoopTest
    \/ EvalBank
    \/ Commit
    \/ \E kind \in WrapKinds, sig \in UnitAmounts : Wrap(kind, sig)

SpecWrap == InitWrap /\ [][NextWrap]_vars

(***************************************************************************)
(* SpecRecord: a banking system of the two banks, passed to the            *)
(* constructor in either order and with save_history=True, on which        *)
(* fixedpoint_equity is called.                                            *)
(***************************************************************************)
\* The banks of the system in increasing order of identity, whatever the
\* order they were passed in
SortedBanks ==
    LET S == {banks[i] : i \in 1 .. Len(banks)}
    IN  CHOOSE q \in [1 .. Cardinality(S) -> S] :
            \A i, j \in 1 .. Cardinality(S) : i < j => q[i] < q[j]

\* fixedpoint_equity as a function of the equities eq, the iteration count t
\* and the error e, iterating over the banks in the order of SortedBanks
RECURSIVE Solve(_, _, _)
Solve(eq, t, e) ==
    IF RLt(tol, e) /\ t < maxiter
    THEN IF \E i \in 1 .. Len(SortedBanks) : EquityMapRaises(SortedBanks[i], eq)
         THEN [equity |-> eq, time |-> t, raised |-> TRUE]
         ELSE LET old == [i \in 1 .. Len(SortedBanks) |-> eq[SortedBanks[i]]]
                  new == [i \in 1 .. Len(SortedBanks) |->
                             EquityMap(SortedBanks[i], eq)]
                  nxt == [b \in DOMAIN eq |->
                             IF \E i \in 1 .. Len(SortedBanks) : SortedBanks[i] = b
                             THEN EquityMap(b, eq) ELSE eq[b]]
              IN  Solve(nxt, NextTime(t), IterError(old, new, Len(SortedBanks)))
    ELSE [equity |-> eq, time |-> t, raised |-> FALSE]

BankOrders == {<<1, 2>>, <<2, 1>>}

\* The state left by BankingSystem.__init__(banks_list, tol, maxiter, True)
InitRecord ==
    /\ extasset \in [Banks -> UnitAmounts]
    /\ extliab \in [Banks -> UnitAmounts]
    /\ ibliabtot \in [Banks -> UnitAmounts]
    /\ ibasset \in EdgeMaps(UnitFaces)
    /\ \E rv \in BOOLEAN :
          /\ exteval = [b \in Banks |-> IF rv THEN RVExteval ELSE Default]
          /\ ibeval_lender = [b \in Banks |-> IF rv THEN RVLender ELSE Default]
    /\ ibeval \in [Banks -> Ibevals]
    /\ tol = Rat(1, 10)
    /\ maxiter \in 1 .. MaxIter
    /\ made = Banks
    /\ banks \in BankOrders
    /\ nbanks = Len(banks)
    /\ built = TRUE
    /\ equity = [b \in Banks |-> get_naiveequity(b)]
    /\ save_history = TRUE
    /\ history = <<>>
    /\ pc = "idle"
    /\ time = 0
    /\ err = R(0)
    /\ equity_old = <<>>
    /\ equity_new = <<>>
    /\ errs = <<>>
    /\ ncalls = 0
    /\ ret = Result("BankingSystem", None)
    /\ PlainBanks

SpecRecord == InitRecord /\ [][Next]_vars

(***************************************************************************)
(* SpecAdjust: a BankingSystemGBMse made by with_sigma_equity from a       *)
(* freshly constructed system of the banks 1 and 2 (named A and B, every   *)
(* edge inside the system); its banks are the new objects NewId(1) and     *)
(* NewId(2).  On it fixedpoint_equity, fixedpoint_extasset (adjust.py) and *)
(* fixedpoint_extasset_sigmaasset (gbm.py) are called.                     *)
(***************************************************************************)
\* The generator of BankAdjust.eval_extasset,
\* ibasset * borrower.ibeval(borrower.extasset), when the banks' extasset
\* attributes hold ea
IbassetValuesAtExtasset(b, ea) ==
    [k \in 1 .. Len(ibasset[b]) |->
        RMul(ibasset[b][k][2],
             ApplyIbeval(ibeval[ibasset[b][k][1]], ibasset[b][k][1],
                         ea[ibasset[b][k][1]]))]

\* The expression BankAdjust.eval_extasset returns when the banks' extasset
\* attributes hold ea
ExtassetMap(b, ea) ==
    RSub(RAdd(RAdd(equity[b], extliab[b]), ibliabtot[b]),
         RMul(ApplyLender(ibeval_lender[b], equity[b]),
              SumSeq(IbassetValuesAtExtasset(b, ea))))

\* A valuation function called by BankAdjust.eval_extasset raises
ExtassetMapRaises(b, ea) ==
    \E k \in 1 .. Len(ibasset[b]) :
        IbevalRaises(ibeval[ibasset[b][k][1]], ibasset[b][k][1],
                     ea[ibasset[b][k][1]])

\* the external assets after the first i banks were evaluated, had each
\* value been stored as soon as it was computed
RECURSIVE StoredExtasset(_)
StoredExtasset(i) ==
    IF i = 0 THEN extasset
    ELSE LET prev == StoredExtasset(i - 1)
         IN  [prev EXCEPT ![banks[i]] = ExtassetMap(banks[i], prev)]

eval_extasset_stored(b) ==
    IF \E i \in 1 .. Len(banks) : banks[i] = b
    THEN StoredExtasset(CHOOSE i \in 1 .. Len(banks) : banks[i] = b)[b]
    ELSE ExtassetMap(b, extasset)

\* BankAdjust.eval_extasset
eval_extasset(b) == ExtassetMap(b, extasset)

eval_extasset_raises(b) == ExtassetMapRaises(b, extasset)

\* BankGBMse.eval_sigma_asset with saeval = sigma_asset_simple
eval_sigma_asset(b) == sigma_asset_simple(equity[b], extasset[b], sigma_equity[b])

eval_sigma_asset_raises(b) ==
    sigma_asset_simple_raises(equity[b], extasset[b], sigma_equity[b])

\* [bnk.extasset for bnk in self.banks]
get_extasset == [i \in 1 .. Len(banks) |-> extasset[banks[i]]]

\* [bnk.sigma_asset for bnk in self.banks]
get_sigma_asset == [i \in 1 .. Len(banks) |-> sigma_asset[banks[i]]]

\* BankingSystemAdjust.set_extasset
set_extasset(vec) ==
    [x \in DOMAIN extasset |-> IF IndexOf(x) = 0 THEN extasset[x] ELSE vec[IndexOf(x)]]

\* BankingSystemGBM.set_sigma_asset
set_sigma_asset(vec) ==
    [x \in DOMAIN sigma_asset |->
        IF IndexOf(x) = 0 THEN sigma_asset[x] ELSE vec[IndexOf(x)]]

EquityAfterSetExtasset_naive(vec) ==
    [x \in DOMAIN equity |->
        IF IndexOf(x) = 0 THEN equity[x]
        ELSE NaiveEquity(vec[IndexOf(x)], extliab[x], ibasset[x], ibliabtot[x])]

\* set_extasset assigns bnk.extasset and nothing else: the equities after it
EquityAfterSetExtasset(vec) == equity

\* the banks are objects of BankAdjust or of a class derived from it
IsAdjust == source # NoSource

\* the banks are objects of BankGBMse
IsGBMse == \A i \in 1 .. Len(banks) : sigma_equity[banks[i]] # NoAttr

\* fixedpoint_extasset is entered: time = 0, err = self.tol * 10
FixedpointExtassetCall ==
    /\ built /\ IsAdjust
    /\ pc \in {"idle", "done", "raised"}
    /\ ncalls < MaxCalls
    /\ ncalls' = ncalls + 1
    /\ time' = 0
    /\ err' = InitialErr(tol)
    /\ errs' = <<>>
    /\ extasset_old' = <<>>
    /\ extasset_new' = <<>>
    /\ pc' = "aloop"
    /\ ret' = Result("fixedpoint_extasset", "running")
    /\ UNCHANGED <<bankVars, sysVars, equity_old, equity_new,
                   name, sigma_asset, sigma_equity, source,
                   sigma_asset_old, sigma_asset_new>>

\* One iteration of fixedpoint_extasset: the two lists, the error,
\* set_extasset and time += 1; a valuation function that raises ends the
\* call before anything is set
ExtassetIterate ==
    /\ pc = "aloop"
    /\ LoopCondition
    /\ extasset_old' = get_extasset
    /\ IF \E i \in 1 .. Len(banks) : eval_extasset_raises(banks[i])
       THEN /\ pc' = "raised"
            /\ ret' = Result("fixedpoint_extasset", "ZeroDivisionError")
            /\ UNCHANGED <<extasset_new, err, errs, time, extasset, equity>>
       ELSE /\ extasset_new' = [i \in 1 .. Len(banks) |-> eval_extasset(banks[i])]
            /\ err' = IterError(get_extasset, extasset_new', nbanks)
            /\ errs' = Append(errs, err')
            /\ extasset' = set_extasset(extasset_new')
            /\ equity' = EquityAfterSetExtasset(extasset_new')
            /\ time' = NextTime(time)
            /\ UNCHANGED <<pc, ret>>
    /\ UNCHANGED <<made, extliab, ibliabtot, ibasset, exteval, ibeval,
                   ibeval_lender, sysVars, equity_old, equity_new, ncalls,
                   name, sigma_asset, sigma_equity, source,
                   sigma_asset_old, sigma_asset_new>>

\* The while test of fixedpoint_extasset fails: the method returns None
ExtassetReturn ==
    /\ pc = "aloop"
    /\ ~LoopCondition
    /\ pc' = "done"
    /\ ret' = Result("fixedpoint_extasset", None)
    /\ UNCHANGED <<bankVars, sysVars, time, err, equity_old, equity_new, errs,
                   ncalls, extVars>>

\* err**2 for err = math.sqrt(err_a**2 + err_s**2)
JointErrSq(err_a, err_s) == RAdd(RMul(err_a, err_a), RMul(err_s, err_s))

\* The loop condition of fixedpoint_extasset_sigmaasset on the square e2 of
\* err: for tol >= 0, err > tol exactly when err**2 > tol**2
JointLoopCondition(e2) == RLt(RMul(tol, tol), e2) /\ time < maxiter

\* fixedpoint_extasset_sigmaasset is entered: time = 0, err = self.tol * 10.
\* In this method err holds the square of the local err.
JointCall ==
    /\ built /\ IsAdjust /\ IsGBMse
    /\ pc \in {"idle", "done", "raised"}
    /\ ncalls < MaxCalls
    /\ ncalls' = ncalls + 1
    /\ time' = 0
    /\ err' = RMul(InitialErr(tol), InitialErr(tol))
    /\ errs' = <<>>
    /\ extasset_old' = <<>>
    /\ extasset_new' = <<>>
    /\ sigma_asset_old' = <<>>
    /\ sigma_asset_new' = <<>>
    /\ pc' = "jloop"
    /\ ret' = Result("fixedpoint_extasset_sigmaasset", "running")
    /\ UNCHANGED <<bankVars, sysVars, equity_old, equity_new,
                   name, sigma_asset, sigma_equity, source>>

\* One iteration of fixedpoint_extasset_sigmaasset: the four lists, both
\* computed from the attributes before set_extasset and set_sigma_asset,
\* then the two errors and time += 1; eval_extasset or eval_sigma_asset
\* raising ends the call before anything is set
JointIterate ==
    /\ pc = "jloop"
    /\ JointLoopCondition(err)
    /\ extasset_old' = get_extasset
    /\ sigma_asset_old' = get_sigma_asset
    /\ IF \/ \E i \in 1 .. Len(banks) : eval_extasset_raises(banks[i])
          \/ \E i \in 1 .. Len(banks) : eval_sigma_asset_raises(banks[i])
       THEN /\ pc' = "raised"
            /\ ret' = Result("fixedpoint_extasset_sigmaasset", "ZeroDivisionError")
            /\ extasset_new' =
                  IF \E i \in 1 .. Len(banks) : eval_extasset_raises(banks[i])
                  THEN extasset_new
                  ELSE [i \in 1 .. Len(banks) |-> eval_extasset(banks[i])]
            /\ UNCHANGED <<sigma_asset_new, err, errs, time, extasset,
                           sigma_asset, equity>>
       ELSE /\ extasset_new' = [i \in 1 .. Len(banks) |-> eval_extasset(banks[i])]
            /\ sigma_asset_new' =
                  [i \in 1 .. Len(banks) |-> eval_sigma_asset(banks[i])]
            /\ extasset' = set_extasset(extasset_new')
            /\ sigma_asset' = set_sigma_asset(sigma_asset_new')
            /\ equity' = EquityAfterSetExtasset(extasset_new')
            /\ err' = JointErrSq(IterError(get_extasset, extasset_new', nbanks),
                                 IterError(get_sigma_asset, sigma_asset_new', nbanks))
            /\ errs' = Append(errs, err')
            /\ time' = NextTime(time)
            /\ UNCHANGED <<pc, ret>>
    /\ UNCHANGED <<made, extliab, ibliabtot, ibasset, exteval, ibeval,
                   ibeval_lender, sysVars, equity_old, equity_new, ncalls,
                   name, sigma_equity, source>>

\* The while test of fixedpoint_extasset_sigmaasset fails: returns None
JointReturn ==
    /\ pc = "jloop"
    /\ ~JointLoopCondition(err)
    /\ pc' = "done"
    /\ ret' = Result("fixedpoint_extasset_sigmaasset", None)
    /\ UNCHANGED <<bankVars, sysVars, time, err, equity_old, equity_new, errs,
                   ncalls, extVars>>

\* the attribute of an object of the derived system: that of the bank it was
\* created from
Copied(src) == [x \in Objects |-> IF x \in Banks THEN src[x] ELSE src[x - Cardinality(Banks)]]

\* the edge list of a new bank: the edges of the old lender, each pointing
\* to the new bank of the borrower's name
Shifted(edges) ==
    [k \in 1 .. Len(edges) |-> <<edges[k][1] + Cardinality(Banks), edges[k][2]>>]

\* fixedpoint_extasset as a function of the external assets ea, the
\* iteration count t and the error e, at the banks' current equities
RECURSIVE SolveExtasset(_, _, _)
SolveExtasset(ea, t, e) ==
    IF RLt(tol, e) /\ t < maxiter
    THEN IF \E i \in 1 .. Len(banks) : ExtassetMapRaises(banks[i], ea)
         THEN [extasset |-> ea, time |-> t, err |-> e, raised |-> TRUE]
         ELSE LET old == [i \in 1 .. Len(banks) |-> ea[banks[i]]]
                  new == [i \in 1 .. Len(banks) |-> ExtassetMap(banks[i], ea)]
                  nxt == [x \in DOMAIN ea |->
                             IF IndexOf(x) = 0 THEN ea[x] ELSE ExtassetMap(x, ea)]
              IN  SolveExtasset(nxt, NextTime(t), IterError(old, new, nbanks))
    ELSE [extasset |-> ea, time |-> t, err |-> e, raised |-> FALSE]

\* the external assets the derived system was created with: those of the
\* banks it was made from
CreatedExtasset ==
    [x \in DOMAIN extasset |->
        IF IndexOf(x) = 0 THEN extasset[x] ELSE extasset[source.banks[IndexOf(x)]]]

AdjustAssets == {R(-1), R(1)}

\* The state left by BankingSystemGBMse.with_sigma_equity(bnksys, [sig, sig])
\* on bnksys = BankingSystem([1, 2], tol, maxiter) that was not solved
InitAdjust ==
    /\ made = Objects
    /\ name = Copied([b \in Banks |-> IF b = 1 THEN NameA ELSE NameB])
    /\ \E src \in [Banks -> AdjustAssets] : extasset = Copied(src)
    /\ \E el2 \in {R(0), R(2)} :
          extliab = Copied([b \in Banks |-> IF b = 2 THEN el2 ELSE R(0)])
    /\ \E src \in [Banks -> UnitAmounts] : ibliabtot = Copied(src)
    /\ \E src \in {f \in EdgeMaps(UnitFaces \cup {R(2)}) :
                      \A k \in 1 .. Len(f[2]) : f[2][k][2] \in UnitFaces} :
          ibasset = [x \in Objects |->
                       IF x \in Banks THEN src[x]
                       ELSE Shifted(src[x - Cardinality(Banks)])]
    /\ exteval = [x \in Objects |-> Default]
    /\ \E src \in [Banks -> {Default, Val("furfine", R(0))}] : ibeval = Copied(src)
    /\ \E rv \in BOOLEAN :
          ibeval_lender = [x \in Objects |-> IF rv THEN RVLender ELSE Default]
    /\ equity = [x \in Objects |-> get_naiveequity(x)]
    /\ \E sig \in UnitAmounts :
          /\ sigma_equity = [x \in Objects |-> IF x \in Banks THEN NoAttr ELSE sig]
          /\ sigma_asset = [x \in Objects |->
                              IF x \in Banks THEN NoAttr
                              ELSE sigma_asset_simple(equity[x], extasset[x], sig)]
    /\ source = [banks |-> <<1, 2>>, nbanks |-> 2, history |-> <<>>]
    /\ banks = <<NewId(1), NewId(2)>>
    /\ nbanks = 2
    /\ built = TRUE
    /\ tol = Rat(1, 10)
    /\ maxiter \in 1 .. MaxIter
    /\ save_history \in BOOLEAN
    /\ history = <<>>
    /\ pc = "idle"
    /\ time = 0
    /\ err = R(0)
    /\ equity_old = <<>>
    /\ equity_new = <<>>
    /\ errs = <<>>
    /\ ncalls = 0
    /\ extasset_old = <<>>
    /\ extasset_new = <<>>
    /\ sigma_asset_old = <<>>
    /\ sigma_asset_new = <<>>
    /\ ret = Result("with_sigma_equity", None)

NextAdjust ==
    \/ FixedpointEquityCall
    \/ LoopTest
    \/ EvalBank
    \/ Commit
    \/ FixedpointExtassetCall
    \/ ExtassetIterate
    \/ ExtassetReturn
    \/ JointCall
    \/ JointIterate
    \/ JointReturn

SpecAdjust == InitAdjust /\ [][NextAdjust]_vars

(***************************************************************************)
(* SpecReset: a constructed system of the banks 1 and 2 on which           *)
(* fixedpoint_equity is called, and whose banks are given new interbank    *)
(* assets by Bank.set_ibasset before or after the call.                    *)
(***************************************************************************)
InitReset ==
    /\ extasset \in [Banks -> UnitAmounts]
    /\ extliab \in [Banks -> UnitAmounts]
    /\ ibliabtot \in [Banks -> UnitAmounts]
    /\ ibasset \in EdgeMaps(UnitFaces)
    /\ exteval = [b \in Banks |-> Default]
    /\ ibeval_lender = [b \in Banks |-> Default]
    /\ ibeval \in [Banks -> {Default, Val("furfine", R(0))}]
    /\ tol = Rat(1, 10)
    /\ maxiter \in 1 .. MaxIter
    /\ Constructed(<<1, 2>>)
    /\ PlainBanks

NextReset ==
    \/ FixedpointEquityCall
    \/ LoopTest
    \/ EvalBank
    \/ Commit
    \/ \E b \in Banks : \E edges \in EdgeLists(b, UnitFaces \cup {R(2)}) :
          /\ pc \in {"idle", "done", "raised"}
          /\ SetIbasset(b, edges)

SpecReset == InitReset /\ [][NextReset]_vars

(***************************************************************************)
(* SpecParse: parse.parse_csv in adjacency-matrix mode (parse.py) on a     *)
(* balance-sheet file of the banks 1 and 2, in this order and named A and  *)
(* B, and a square matrix of exposures.                                    *)
(***************************************************************************)
\* the column of the entry of a row for which banks[idx_l]['ibasset'] is
\* created: the first one with amount > 0.0 (0 when the row has none)
FirstPositive(row) ==
    IF \E c \in DOMAIN row : RPos(row[c])
    THEN CHOOSE c \in DOMAIN row :
            RPos(row[c]) /\ \A d \in DOMAIN row : RPos(row[d]) => c <= d
    ELSE 0

\* banks[idx_l]['ibasset'] after the loops, as the list parse_json makes of
\* it: the assignment of line 199 is inside "if not 'ibasset' in ...", so
\* only the first positive entry of a row is entered
ParsedIbasset(m, l) ==
    IF FirstPositive(m[l]) = 0 THEN <<>>
    ELSE << <<FirstPositive(m[l]), m[l][FirstPositive(m[l])]>> >>

\* 'ibliabtot' in banks[idx_b] after the loops
HasIbliabtot(m, b) == \E l \in DOMAIN m : FirstPositive(m[l]) = b

\* banks[idx_b]['ibliabtot']: 0.0 plus the amounts entered, in row order
ParsedIbliabtot(m, b) ==
    SumSeq([l \in DOMAIN m |-> IF FirstPositive(m[l]) = b THEN m[l][b] ELSE R(0)])

\* parse_json reads bnk['ibliabtot'] of every bank
ParseJsonRaises(m) == \E b \in DOMAIN m : ~HasIbliabtot(m, b)

\* parse_csv(in_bs, in_exp) with the balance sheets ea, el and the matrix m:
\* the dictionaries, then parse_json: the banks, their edge lists and
\* BankingSystem(banks)
ParseCsv(ea, el, m) ==
    /\ ~built
    /\ made = {}
    /\ IF ParseJsonRaises(m)
       THEN /\ ret' = Result("parse_csv", [input |-> m, raised |-> "KeyError"])
            /\ UNCHANGED <<bankVars, sysVars, name>>
       ELSE /\ made' = Banks
            /\ name' = [b \in Banks |-> IF b = 1 THEN NameA ELSE NameB]
            /\ extasset' = ea
            /\ extliab' = el
            /\ ibliabtot' = [b \in Banks |-> ParsedIbliabtot(m, b)]
            /\ ibasset' = [b \in Banks |-> ParsedIbasset(m, b)]
            /\ equity' = [b \in Banks |->
                            NaiveEquity(ea[b], el[b], ParsedIbasset(m, b),
                                        ParsedIbliabtot(m, b))]
            /\ banks' = <<1, 2>>
            /\ nbanks' = 2
            /\ built' = TRUE
            /\ ret' = Result("parse_csv", [input |-> m, raised |-> None])
            /\ UNCHANGED <<exteval, ibeval, ibeval_lender, tol, maxiter,
                           save_history, history>>
    /\ UNCHANGED <<solverVars, sigma_asset, sigma_equity, source, extasset_old,
                   extasset_new, sigma_asset_old, sigma_asset_new>>

\* the square matrices of exposures over the two banks
Matrices == [1 .. 2 -> [1 .. 2 -> {R(a) : a \in 0 .. MaxAmount + 1}]]

NextParse ==
    \/ \E ea \in [Banks -> UnitAmounts], m \in Matrices :
          ParseCsv(ea, [b \in Banks |-> R(0)], m)
    \/ ValidateIbasset

SpecParse == InitBuild /\ [][NextParse]_vars

(***************************************************************************)
(* SpecShock: utils.shock_and_solve(b_sys, equity_delta, method,           *)
(* solve_assets=False) on a constructed system of the banks 1 and 2,       *)
(* possibly solved before.  The call shocks the banks, resets the history, *)
(* sets the valuation functions of the method and enters                   *)
(* fixedpoint_equity, whose iterations are the steps LoopTest, EvalBank    *)
(* and Commit.                                                             *)
(***************************************************************************)
ShockedValue_floor(x, d) == RMax(RSub(x, d), R(0))

\* bnk.equity -= equity_delta[idx]; bnk.extasset -= equity_delta[idx]
ShockedValue(x, d) == RSub(x, d)

\* bnk.ibeval of the second loop of shock_and_solve; a method other than
\* the three it names leaves the valuation functions as they are
MethodIbeval(method, old) ==
    IF method = "eisenberg_noe" THEN Val("eisenberg_noe", R(0)) ELSE old

ShockAndSolve(equity_delta, method) ==
    /\ built
    /\ pc \in {"idle", "done", "raised"}
    /\ ncalls <= MaxCalls
    /\ equity' = [b \in DOMAIN equity |->
                    IF IndexOf(b) = 0 THEN equity[b]
                    ELSE ShockedValue(equity[b], equity_delta[IndexOf(b)])]
    /\ extasset' = [b \in DOMAIN extasset |->
                      IF IndexOf(b) = 0 THEN extasset[b]
                      ELSE ShockedValue(extasset[b], equity_delta[IndexOf(b)])]
    /\ save_history' = TRUE
    /\ history' = <<>>
    /\ ibeval' = [b \in DOMAIN ibeval |->
                    IF IndexOf(b) = 0 THEN ibeval[b]
                    ELSE MethodIbeval(method, ibeval[b])]
    /\ ncalls' = ncalls + 1
    /\ time' = 0
    /\ err' = InitialErr(tol)
    /\ errs' = <<>>
    /\ equity_old' = <<>>
    /\ equity_new' = <<>>
    /\ pc' = "loop"
    /\ ret' = Result("shock_and_solve",
                     [equity_delta |-> equity_delta,
                      extasset |-> [i \in 1 .. Len(banks) |-> extasset[banks[i]]],
                      equity |-> get_equity])
    /\ UNCHANGED <<made, extliab, ibliabtot, ibasset, exteval, ibeval_lender,
                   built, banks, nbanks, tol, maxiter>>
    /\ UNCHANGED extVars

Deltas == [1 .. 2 -> UnitAmounts]

InitShock ==
    /\ extasset \in [Banks -> UnitAmounts]
    /\ extliab \in [Banks -> UnitAmounts]
    /\ ibliabtot \in [Banks -> UnitAmounts]
    /\ ibasset \in EdgeMaps(UnitFaces)
    /\ exteval = [b \in Banks |-> Default]
    /\ ibeval_lender = [b \in Banks |-> Default]
    /\ ibeval = [b \in Banks |-> Val("furfine", R(0))]
    /\ tol = Rat(1, 10)
    /\ maxiter \in 0 .. MaxIter
    /\ Constructed(<<1, 2>>)
    /\ PlainBanks

NextShock ==
    \/ FixedpointEquityCall
    \/ LoopTest
    \/ EvalBank
    \/ Commit
    \/ \E equity_delta \in Deltas, method \in {"eisenberg_noe", "other"} :
          ShockAndSolve(equity_delta, method)

SpecShock == InitShock /\ [][NextShock]_vars

(***************************************************************************)
(* SpecValuation: the interbank valuation functions of ibeval.py called as *)
(* functions, on arguments within the ranges their docstrings give         *)
(* (recovery rates and alpha, beta between 0 and 1).  Each call leaves its *)
(* arguments and the value it returned, or the fact that it raised, in     *)
(* ret; nothing else is touched.                                           *)
(***************************************************************************)
RMin(a, b) == IF RLt(b, a) THEN b ELSE a

\* ibeval.py rogers_veraart(equity, extasset, liabtot, alpha, beta); divides
\* by liabtot when equity <= 0
ibeval_rogers_veraart(e, ea, liabtot, alpha, beta) ==
    IF RPos(e) THEN R(1)
    ELSE RAdd(RDiv(RMul(RSub(alpha, beta), ea), liabtot),
              RMul(beta, RMax(RDiv(RAdd(e, liabtot), liabtot), R(0))))

ibeval_rogers_veraart_raises(e, liabtot) == ~RPos(e) /\ RZero(liabtot)

\* ibeval.py lin_cav_aext(equity, liabtot, equity0); divides by 2 * equity0
\* only when b > a, and then equity0 > 0
lin_cav_aext(e, liabtot, equity0) ==
    LET a == RMax(RNeg(equity0), RSub(RNeg(e), liabtot))
        b == RMin(RNeg(e), R(0))
    IN  IF RLt(a, b)
        THEN RDiv(RSub(RMul(b, b), RMul(a, a)), RMul(R(2), equity0))
        ELSE R(0)

\* ibeval.py exante_en_merton(equity, extasset, liabtot, rho, prob_def,
\* prob_def_shifted, cav_aext); divides by liabtot
exante_en_merton(e, ea, liabtot, rho, prob_def, prob_def_shifted, cav_aext) ==
    RAdd(RSub(R(1), prob_def),
         RMul(rho,
              RAdd(RMul(RAdd(R(1), RDiv(RSub(e, ea), liabtot)),
                        RSub(prob_def, prob_def_shifted)),
                   RMul(RDiv(R(1), liabtot), cav_aext))))

\* ibeval.py end_lin_dr(equity, extasset, liabtot, rho, equity0)
end_lin_dr(e, ea, liabtot, rho, equity0) ==
    exante_en_merton(e, ea, liabtot, rho, rel_loss(e, equity0),
                     rel_loss(RAdd(e, liabtot), equity0),
                     lin_cav_aext(e, liabtot, equity0))

end_lin_dr_raises(liabtot) == RZero(liabtot)

\* what a call of a valuation function leaves behind: its arguments, whether
\* it raised ZeroDivisionError, and the value it returned
Returned(args, raises, value) ==
    [args |-> args,
     raised |-> IF raises THEN "ZeroDivisionError" ELSE None,
     value |-> IF raises THEN NoAttr ELSE value]

RogersVeraartCall(e, ea, liabtot, alpha, beta) ==
    /\ ret' = Result("rogers_veraart",
                     Returned(<<e, ea, liabtot, alpha, beta>>,
                              ibeval_rogers_veraart_raises(e, liabtot),
                              ibeval_rogers_veraart(e, ea, liabtot, alpha, beta)))
    /\ UNCHANGED <<bankVars, sysVars, solverVars, extVars>>

EndLinDrCall(e, ea, liabtot, rho, equity0) ==
    /\ ret' = Result("end_lin_dr",
                     Returned(<<e, ea, liabtot, rho, equity0>>,
                              end_lin_dr_raises(liabtot),
                              end_lin_dr(e, ea, liabtot, rho, equity0)))
    /\ UNCHANGED <<bankVars, sysVars, solverVars, extVars>>

EisenbergNoeCall(e, liabtot) ==
    /\ ret' = Result("eisenberg_noe",
                     Returned(<<e, liabtot>>, eisenberg_noe_raises(e, liabtot),
                              eisenberg_noe(e, liabtot)))
    /\ UNCHANGED <<bankVars, sysVars, solverVars, extVars>>

LinDrCall(e, equity0) ==
    /\ ret' = Result("lin_dr", Returned(<<e, equity0>>, FALSE, lin_dr(e, equity0)))
    /\ UNCHANGED <<bankVars, sysVars, solverVars, extVars>>

ArgEquities == {R(-1), R(0), Rat(1, 2), R(1)}
ArgAssets == {R(a) : a \in 0 .. MaxAmount + 2}
ArgLiabilities == {R(a) : a \in 0 .. MaxAmount + 1}
UnitRates == {R(0), Rat(1, 2), R(1)}
ArgEquity0 == {R(a) : a \in 1 .. MaxAmount + 1}

NextValuation ==
    \/ \E e \in ArgEquities, ea \in ArgAssets, liabtot \in ArgLiabilities,
          alpha \in UnitRates, beta \in UnitRates :
          RogersVeraartCall(e, ea, liabtot, alpha, beta)
    \/ \E e \in ArgEquities, ea \in ArgAssets, liabtot \in ArgLiabilities,
          rho \in UnitRates, equity0 \in ArgEquity0 :
          EndLinDrCall(e, ea, liabtot, rho, equity0)
    \/ \E e \in ArgEquities, liabtot \in ArgLiabilities :
          EisenbergNoeCall(e, liabtot)
    \/ \E e \in ArgEquities, equity0 \in ArgEquity0 : LinDrCall(e, equity0)

SpecValuation == InitBuild /\ [][NextValuation]_vars

(***************************************************************************)
(* SpecTrajectory: a banking system constructed with save_history=True on  *)
(* which fixedpoint_equity is called several times in a row, with the same *)
(* valuation functions and without set_history or set_equity in between.   *)
(***************************************************************************)
\* fixedpoint_equity is entered, for the first time or once more: time = 0,
\* err = self.tol * 10; the history and the banks' equities are left as the
\* call before left them
FixedpointEquityRepeated ==
    /\ built
    /\ pc \in {"idle", "done", "raised"}
    /\ ncalls <= MaxCalls
    /\ ncalls' = ncalls + 1
    /\ time' = 0
    /\ err' = InitialErr(tol)
    /\ errs' = <<>>
    /\ equity_old' = <<>>
    /\ equity_new' = <<>>
    /\ pc' = "loop"
    /\ ret' = Result("fixedpoint_equity", "running")
    /\ UNCHANGED <<bankVars, sysVars>>
    /\ UNCHANGED extVars

InitTrajectory ==
    /\ InitRecord
    /\ banks = <<1, 2>>
    /\ \A b \in Banks : exteval[b] = Default /\ ibeval_lender[b] = Default

NextTrajectory ==
    \/ FixedpointEquityRepeated
    \/ LoopTest
    \/ EvalBank
    \/ Commit

SpecTrajectory == InitTrajectory /\ [][NextTrajectory]_vars

(***************************************************************************)
(* SpecIndex: BankingSystem.__init__ on a list of constructed banks, which *)
(* may name a bank more than once and banks of the same name.  The three   *)
(* dictionaries the constructor fills are left in ret: banks is the state  *)
(* variable of that name (its keys in order), banksbyid the list of the    *)
(* values under the keys 0, 1, ..., banksbyname the function from the      *)
(* names to the banks.                                                     *)
(***************************************************************************)
MaxListed == 3

\* self.banksbyid[bidx] = bnk over enumerate(banks): entry i + 1 is the value
\* under the key i
BanksById(list) == list

\* self.banksbyname[bnk.name] = bnk over the list: one key per name, the
\* value of a name is the last bank of the list with that name
BanksByNameDict(list) ==
    [nm \in {name[list[i]] : i \in 1 .. Len(list)} |-> BanksByName(list, nm)]

\* BankingSystem.__init__(banks_list, tol, maxiter, save_history=False)
BankingSystemInit(banks_list, t, m) ==
    /\ ~built
    /\ \A i \in 1 .. Len(banks_list) : banks_list[i] \in made
    /\ built' = TRUE
    /\ banks' = Distinct(banks_list)
    /\ equity' = [b \in DOMAIN equity |->
                    IF \E i \in 1 .. Len(banks_list) : banks_list[i] = b
                    THEN get_naiveequity(b) ELSE equity[b]]
    /\ nbanks' = Len(banks_list)
    /\ tol' = t
    /\ maxiter' = m
    /\ save_history' = FALSE
    /\ history' = <<>>
    /\ ret' = Result("BankingSystem.__init__",
                     [banks_list |-> banks_list,
                      banksbyid |-> BanksById(banks_list),
                      banksbyname |-> BanksByNameDict(banks_list)])
    /\ UNCHANGED <<made, extasset, extliab, ibliabtot, ibasset,
                   exteval, ibeval, ibeval_lender, solverVars>>
    /\ UNCHANGED extVars

\* the lists of one to MaxListed banks
ListedBanks == UNION {[1 .. k -> Banks] : k \in 1 .. MaxListed}

\* the two banks constructed, with the default name or a name of their own
InitIndex ==
    /\ made = Banks
    /\ extasset \in [Banks -> Amounts]
    /\ extliab = [b \in Banks |-> R(0)]
    /\ ibliabtot \in [Banks -> UnitAmounts]
    /\ ibasset \in EdgeMaps(UnitFaces)
    /\ exteval = [b \in Banks |-> Default]
    /\ ibeval = [b \in Banks |-> Default]
    /\ ibeval_lender = [b \in Banks |-> Default]
    /\ equity = [b \in Banks |-> get_naiveequity(b)]
    /\ built = FALSE
    /\ banks = <<>>
    /\ nbanks = 0
    /\ tol = Rat(1, 1000)
    /\ maxiter = 100
    /\ save_history = FALSE
    /\ history = <<>>
    /\ pc = "idle"
    /\ time = 0
    /\ err = R(0)
    /\ equity_old = <<>>
    /\ equity_new = <<>>
    /\ errs = <<>>
    /\ ncalls = 0
    /\ ret = Result("start", None)
    /\ name \in [Banks -> {DefaultName, NameA, NameB}]
    /\ sigma_asset = [b \in Banks |-> NoAttr]
    /\ sigma_equity = [b \in Banks |-> NoAttr]
    /\ source = NoSource
    /\ extasset_old = <<>>
    /\ extasset_new = <<>>
    /\ sigma_asset_old = <<>>
    /\ sigma_asset_new = <<>>

NextIndex ==
    \E banks_list \in ListedBanks : BankingSystemInit(banks_list, Rat(1, 1000), 100)

SpecIndex == InitIndex /\ [][NextIndex]_vars

(***************************************************************************)
(* SpecWrapList: with_sigma_asset and with_sigma_equity called with a list *)
(* of volatilities of any length, on a system of banks with distinct       *)
(* names.  The new banks are made by zip(bnksys.banks, sigma), so there    *)
(* are as many as the shorter of the two; saeval_list is left to its       *)
(* default.                                                                *)
(***************************************************************************)
\* if not sigma: sigma = [0 for bnk in bnksys.banks]
SigmaList(sigs) == IF sigs = <<>> THEN [i \in 1 .. Len(banks) |-> R(0)] ELSE sigs

\* the number of items of zip(bnksys.banks, sigma)
Zipped(sigs) ==
    IF Len(SigmaList(sigs)) < Len(banks) THEN Len(SigmaList(sigs)) ELSE Len(banks)

\* the objects created for the first n banks of the system
Created(n) == {NewId(i) : i \in 1 .. n}

\* the edges _from_bankingsystem appends to a new lender for the edges of
\* the old lender, when the new banks are those made from the first n banks
RECURSIVE RelinkEdgesAmong(_, _)
RelinkEdgesAmong(n, old_edges) ==
    IF old_edges = <<>> THEN <<>>
    ELSE RelinkEdgesAmong(n, SubSeq(old_edges, 1, Len(old_edges) - 1))
         \o Matching(n, name[old_edges[Len(old_edges)][1]],
                     old_edges[Len(old_edges)][2])

RelinkedAmong(n, x) ==
    RelinkEdgesAmong(n, ibasset[BanksByName(banks, name[SourceOf(x)])])

\* the attribute f after the new banks copied it from their source banks
CopyAttrAmong(n, f) ==
    [x \in DOMAIN f |-> IF x \in Created(n) THEN f[SourceOf(x)] ELSE f[x]]

\* with_sigma_asset / with_sigma_equity (kind) with the list sigs
WrapList(kind, sigs) ==
    /\ built
    /\ source = NoSource
    /\ pc \in {"idle", "done", "raised"}
    /\ LET n == Zipped(sigs)
           sg == SigmaList(sigs)
       IN
       IF kind = "with_sigma_equity" /\
          \E i \in 1 .. n :
              sigma_asset_simple_raises(equity[banks[i]], extasset[banks[i]], sg[i])
       THEN /\ ret' = Result(kind, [sigma |-> sigs, raised |-> "ZeroDivisionError"])
            /\ UNCHANGED <<bankVars, sysVars, name, sigma_asset, sigma_equity,
                           source>>
       ELSE /\ made' = made \cup Created(n)
            /\ extasset' = CopyAttrAmong(n, extasset)
            /\ extliab' = CopyAttrAmong(n, extliab)
            /\ exteval' = CopyAttrAmong(n, exteval)
            /\ ibliabtot' = CopyAttrAmong(n, ibliabtot)
            /\ ibeval' = CopyAttrAmong(n, ibeval)
            /\ ibeval_lender' = CopyAttrAmong(n, ibeval_lender)
            /\ name' = CopyAttrAmong(n, name)
            /\ ibasset' = [x \in DOMAIN ibasset |->
                             IF x \in Created(n) THEN RelinkedAmong(n, x)
                             ELSE ibasset[x]]
            /\ equity' = [x \in DOMAIN equity |->
                  IF x \in Created(n)
                  THEN NewSystemEquity(
                           equity[SourceOf(x)],
                           NaiveEquity(extasset[SourceOf(x)], extliab[SourceOf(x)],
                                       RelinkedAmong(n, x), ibliabtot[SourceOf(x)]))
                  ELSE equity[x]]
            /\ sigma_asset' = [x \in DOMAIN sigma_asset |->
                  IF x \notin Created(n) THEN sigma_asset[x]
                  ELSE IF kind = "with_sigma_asset"
                       THEN sg[x - Cardinality(Banks)]
                       ELSE sigma_asset_simple(equity[SourceOf(x)],
                                               extasset[SourceOf(x)],
                                               sg[x - Cardinality(Banks)])]
            /\ sigma_equity' = [x \in DOMAIN sigma_equity |->
                  IF x \in Created(n) /\ kind = "with_sigma_equity"
                  THEN sg[x - Cardinality(Banks)] ELSE sigma_equity[x]]
            /\ source' = [banks |-> banks, nbanks |-> nbanks, history |-> history]
            /\ banks' = [i \in 1 .. n |-> NewId(i)]
            /\ nbanks' = n
            /\ history' = <<>>
            /\ ret' = Result(kind, [sigma |-> sigs, raised |-> None])
            /\ UNCHANGED <<built, tol, maxiter, save_history>>
    /\ UNCHANGED <<solverVars, extasset_old, extasset_new, sigma_asset_old,
                   sigma_asset_new>>

\* the lists of at most as many volatilities as there are banks
SigmaLists == UNION {[1 .. k -> UnitAmounts] : k \in 0 .. Cardinality(Banks)}

InitWrapList == InitWrap /\ name[1] # name[2]

NextWrapList ==
    \/ \E banks_list \in {<<1>>, <<1, 2>>, <<2, 1>>} :
          NewBankingSystem(banks_list, Rat(1, 10), MaxIter)
    \/ FixedpointEquityCall
    \/ LoopTest
    \/ EvalBank
    \/ Commit
    \/ \E kind \in {"with_sigma_asset", "with_sigma_equity"}, sigs \in SigmaLists :
          WrapList(kind, sigs)

SpecWrapList == InitWrapList /\ [][NextWrapList]_vars

(***************************************************************************)
(* SpecSource: a system is constructed, possibly given a history and       *)
(* solved, and wrapped by from_bankingsystem, with_sigma_asset or          *)
(* with_sigma_equity; the derived system is then solved by                 *)
(* fixedpoint_equity and fixedpoint_extasset.  The source system keeps     *)
(* its banks (the objects of Banks) and its history (source.history).      *)
(***************************************************************************)
\* BankingSystem.set_history(save_history) on the system
SetHistory(flag) ==
    /\ built
    /\ pc \in {"idle", "done", "raised"}
    /\ save_history' = flag
    /\ history' = <<>>
    /\ ret' = Result("set_history", None)
    /\ UNCHANGED <<bankVars, built, banks, nbanks, tol, maxiter, solverVars,
                   extVars>>

NextSource ==
    \/ NewBankingSystem(<<1, 2>>, Rat(1, 10), MaxIter)
    \/ \E flag \in BOOLEAN : SetHistory(flag)
    \/ FixedpointEquityRepeated
    \/ LoopTest
    \/ EvalBank
    \/ Commit
    \/ \E kind \in WrapKinds, sig \in UnitAmounts : Wrap(kind, sig)
    \/ FixedpointExtassetCall
    \/ ExtassetIterate
    \/ ExtassetReturn

SpecSource == InitWrapList /\ [][NextSource]_vars

(***************************************************************************)
(* Claims                                                                  *)
(***************************************************************************)
\* The equity attributes of all banks at the start of the current iteration:
\* the snapshot equity_old for the banks of the system
StartEquity ==
    [b \in Banks |-> IF IndexOf(b) = 0 THEN equity[b] ELSE equity_old[IndexOf(b)]]

InSystem == {banks[i] : i \in 1 .. Len(banks)}

Cyclic ==
    /\ \E k \in 1 .. Len(ibasset[1]) : ibasset[1][k][1] = 2
    /\ \E k \in 1 .. Len(ibasset[2]) : ibasset[2][k][1] = 1

\* C1: in every iteration of fixedpoint_equity the new equity of every bank
\* is the one-step valuation at the equities all banks held at the start of
\* the iteration, and no bank's equity is overwritten while new values are
\* still being computed; this holds on cyclic graphs too.
C1_SynchronousUpdate ==
    /\ pc = "eval" =>
          /\ get_equity = equity_old
          /\ \A i \in 1 .. Len(equity_new) :
                equity_new[i] = EquityMap(banks[i], StartEquity)
    /\ (pc \in {"loop", "done"} /\ time > 0) =>
          \A i \in 1 .. Len(banks) :
              equity[banks[i]] = EquityMap(banks[i], StartEquity)

\* a cyclic graph in the middle of an iteration: bank 1 has a new value that
\* differs from its old one, bank 2 is still to be evaluated
C1_Witness ==
    /\ pc = "eval"
    /\ Cyclic
    /\ Len(equity_new) = 1
    /\ equity_new[1] # equity_old[1]
    /\ ibeval[1].fn = "furfine"

\* C2: fixedpoint_equity executes at most maxiter iterations (errs has one
\* entry per executed iteration), is never stuck inside an iteration, and
\* ends silently: it returns None both when the error fell to the tolerance
\* and when the budget was exhausted, and it raises only when a valuation
\* function raised.
C2_TerminatesSilently ==
    /\ Len(errs) <= maxiter
    /\ time = Len(errs)
    /\ pc = "eval" => Len(equity_new) <= Len(banks)
    /\ pc = "done" => ret = Result("fixedpoint_equity", None)
    /\ pc = "raised" => \E b \in InSystem : eval_equity_raises(b)

\* the budget is exhausted on a map that oscillates: two iterations led back
\* to the starting equities with an error above tol, and the call returned
\* None
C2_Witness ==
    /\ pc = "done"
    /\ time = maxiter
    /\ time = 2
    /\ RLt(tol, err)
    /\ get_equity = sys_get_naiveequity
    /\ get_equity # equity_old
    /\ ret.val = None

\* C3: the first iteration is always executed, no iteration is executed after
\* one whose error is <= tol, and the call ends after the first such
\* iteration or after maxiter iterations.
C3_IterationCount ==
    /\ \A k \in 1 .. Len(errs) - 1 : RLt(tol, errs[k])
    /\ pc = "done" =>
          /\ time >= 1
          /\ time = Len(errs)
          /\ RLe(errs[time], tol) \/ time = maxiter

\* the call stopped on the tolerance at its second iteration
C3_Witness ==
    /\ pc = "done"
    /\ time = 2
    /\ RLt(tol, errs[1])
    /\ RLe(errs[2], tol)

AllDefault ==
    \A b \in Banks :
        exteval[b] = Default /\ ibeval[b] = Default /\ ibeval_lender[b] = Default

\* C4: with the default valuation functions fixedpoint_equity on a freshly
\* constructed system executes exactly one iteration and leaves every bank
\* at its naive equity.
C4_DefaultOneIteration ==
    (AllDefault /\ pc = "done") =>
        /\ time = 1
        /\ \A b \in InSystem : equity[b] = get_naiveequity(b)

\* the two-bank scenario solved: equities 0.4 and -0.1
C4_Witness ==
    /\ pc = "done"
    /\ AllDefault
    /\ time = 1
    /\ Len(ibasset[1]) = 1
    /\ get_equity = <<Rat(2, 5), Rat(-1, 10)>>

\* the change of one equity in the symmetric-relative sense
SymRel(old, new) == RMul(R(2), ErrTerm(old, new))

Converged == pc = "done" /\ time >= 1 /\ RLe(err, tol)

\* C5 as stated: once the call stopped with error <= tol, one more
\* eval_equity moves no equity by more than tol.
C5_Idempotent ==
    (Converged /\ \A b \in InSystem : ~eval_equity_raises(b)) =>
        \A b \in InSystem : RLe(SymRel(equity[b], eval_equity(b)), tol)

\* C5 amended: once the call stopped with error 0, one more eval_equity
\* returns the current equity of every bank.
C5_ExactFixedPoint ==
    (pc = "done" /\ time >= 1 /\ RZero(err)) =>
        \A b \in InSystem : ~eval_equity_raises(b) /\ eval_equity(b) = equity[b]

\* an exact fixed point reached after an iteration that moved an equity
C5_Witness ==
    /\ pc = "done"
    /\ time = 2
    /\ RZero(err)
    /\ \E b \in InSystem : equity[b] # get_naiveequity(b)

FaceValuesNonNegative ==
    \A b \in Banks : \A k \in 1 .. Len(ibasset[b]) : RLe(R(0), ibasset[b][k][2])

\* equities at which the range of the valuation functions is sampled
SampleEquities == {Rat(n, 2) : n \in -6 .. 6}

\* every ibeval and ibeval_lender returns a value in [0, 1] where it returns
ValuationsInUnitInterval ==
    \A b \in Banks : \A e \in SampleEquities :
        /\ RLe(R(0), ApplyLender(ibeval_lender[b], e))
        /\ RLe(ApplyLender(ibeval_lender[b], e), R(1))
        /\ ~IbevalRaises(ibeval[b], b, e) =>
              /\ RLe(R(0), ApplyIbeval(ibeval[b], b, e))
              /\ RLe(ApplyIbeval(ibeval[b], b, e), R(1))

\* C6: with non-negative external assets and face values, the default
\* external valuation and multipliers in [0,1], after every iteration the
\* equity of every bank lies between its least and its naive equity.
C6_EquityBounds ==
    (/\ \A b \in Banks : RLe(R(0), extasset[b]) /\ exteval[b] = Default
     /\ FaceValuesNonNegative
     /\ ValuationsInUnitInterval
     /\ pc \in {"loop", "done"}
     /\ time >= 1) =>
        \A b \in InSystem :
            /\ RLe(get_leastequity(b), equity[b])
            /\ RLe(equity[b], get_naiveequity(b))

\* a bank strictly between the two bounds after an iteration
C6_Witness ==
    /\ pc = "done"
    /\ time >= 1
    /\ \A b \in Banks : exteval[b] = Default
    /\ FaceValuesNonNegative
    /\ ValuationsInUnitInterval
    /\ \E b \in InSystem :
          /\ RLt(get_leastequity(b), equity[b])
          /\ RLt(equity[b], get_naiveequity(b))

\* the face values of an edge list added from the first edge on
RECURSIVE FaceSum(_)
FaceSum(edges) ==
    IF edges = <<>> THEN R(0) ELSE RAdd(edges[1][2], FaceSum(Tail(edges)))

\* C7: for every constructed bank get_naiveequity() is extasset - extliab +
\* (sum of the face values of its interbank asset edges) - ibliabtot of the
\* attributes the bank holds now, and a bank just constructed without an
\* equity argument holds that value as its equity.
C7_NaiveEquity ==
    /\ \A b \in made :
          get_naiveequity(b) =
              RSub(RAdd(RSub(extasset[b], extliab[b]), FaceSum(ibasset[b])),
                   ibliabtot[b])
    /\ ret.op = "Bank" =>
          (ret.val.equity_arg = None =>
              equity[ret.val.bank] = get_naiveequity(ret.val.bank))

\* bank 1 holds two edges and its ibliabtot was assigned after set_ibasset:
\* the naive equity follows the attributes, the stored equity does not
C7_Witness ==
    /\ 1 \in made
    /\ Len(ibasset[1]) = 2
    /\ FaceSum(ibasset[1]) = R(2)
    /\ ibliabtot[1] = R(2)
    /\ extasset[1] = R(1)
    /\ extliab[1] = R(1)
    /\ get_naiveequity(1) = R(0)
    /\ equity[1] = R(1)

\* C8 as stated: every bank without interbank asset edges has
\* get_naiveequity() equal to extasset - extliab.
C8_NoEdgesNaive ==
    \A b \in made :
        ibasset[b] = <<>> =>
            get_naiveequity(b) = RSub(extasset[b], extliab[b])

\* C8, amended: every bank without interbank asset edges has
\* get_naiveequity() equal to extasset - extliab - ibliabtot, which is
\* extasset - extliab exactly when its ibliabtot is zero.
C8_NoEdgesNaiveLiab ==
    \A b \in made :
        ibasset[b] = <<>> =>
            /\ get_naiveequity(b) =
                  RSub(RSub(extasset[b], extliab[b]), ibliabtot[b])
            /\ (get_naiveequity(b) = RSub(extasset[b], extliab[b]))
                  <=> RZero(ibliabtot[b])

\* Bank(extasset=1, extliab=1, ibliabtot=1) without edges: naive equity -1
C8_Witness ==
    /\ 1 \in made
    /\ ibasset[1] = <<>>
    /\ extasset[1] = R(1)
    /\ extliab[1] = R(1)
    /\ ibliabtot[1] = R(1)
    /\ get_naiveequity(1) = R(-1)

Reconciled ==
    \A b \in InSystem :
        ibliabtot[b] =
            FaceSum(SelectSeq(EdgesOf(banks), LAMBDA e : e[1] = b))

\* C10: validate_ibasset() returns true exactly when the interbank
\* liabilities of every bank of the system are reconciled with the edges of
\* the system's banks, and false otherwise.
C10_ValidateIbasset ==
    ret.op = "validate_ibasset" =>
        /\ Reconciled => ret.val = "True"
        /\ ~Reconciled => ret.val = "False"

\* an argument that is a list/tuple of 2-element (Bank, number) pairs
WellFormed(arg) ==
    /\ arg.seq
    /\ \A k \in 1 .. Len(arg.items) :
          /\ arg.items[k].seq
          /\ Len(arg.items[k].elems) = 2
          /\ arg.items[k].elems[1].t = "Bank"
          /\ arg.items[k].elems[2].t = "num"

\* C11: set_ibasset answers every argument that is not a list/tuple of
\* 2-element (Bank, number) pairs with TypeError, and leaves the bank's
\* ibasset and equity as they were before the call.
C11_RejectsMalformed ==
    [][\A arg \in IbassetArgs :
          (SetIbassetArg(1, arg) /\ ~WellFormed(arg)) =>
              /\ ret'.val = "TypeError"
              /\ ibasset' = ibasset
              /\ equity' = equity]_vars

\* the banks of the source system, and its preconditions of C12: names
\* pairwise distinct, every edge to a bank of the source system
SourceBanks == {source.banks[i] : i \in 1 .. Len(source.banks)}

SourceNamesDistinct ==
    \A a \in SourceBanks, b \in SourceBanks : a # b => name[a] # name[b]

SourceClosed ==
    \A a \in SourceBanks :
        \A k \in 1 .. Len(ibasset[a]) : ibasset[a][k][1] \in SourceBanks

\* C12: after from_bankingsystem on a source system with pairwise distinct
\* bank names and every edge inside the system, each new lender holds, in
\* the same order, the (borrower name, face value) edges of the source
\* lender of the same name, every edge targets a bank object of the new
\* system, and the interbank asset matrices of the two systems are equal.
C12_RelinkByName ==
    (/\ ret = Result("from_bankingsystem", None)
     /\ SourceNamesDistinct
     /\ SourceClosed) =>
        /\ \A nl \in InSystem :
              \E ol \in SourceBanks :
                  /\ name[ol] = name[nl]
                  /\ Len(ibasset[nl]) = Len(ibasset[ol])
                  /\ \A k \in 1 .. Len(ibasset[ol]) :
                        /\ name[ibasset[nl][k][1]] = name[ibasset[ol][k][1]]
                        /\ ibasset[nl][k][2] = ibasset[ol][k][2]
                        /\ ibasset[nl][k][1] \in InSystem
        /\ get_ibasset_matrix(banks, nbanks)
              = get_ibasset_matrix(source.banks, source.nbanks)

\* a cyclic source system passed as [bank 2, bank 1]: bank 1 lends 2 to
\* bank 2 and 1 to itself, bank 2 lends to bank 1
C12_Witness ==
    /\ ret = Result("from_bankingsystem", None)
    /\ SourceNamesDistinct
    /\ SourceClosed
    /\ source.banks = <<2, 1>>
    /\ ibasset[1] = << <<2, R(2)>>, <<1, R(1)>> >>
    /\ ibasset[2] = << <<1, R(1)>> >>
    /\ ibasset[NewId(2)] = << <<NewId(1), R(2)>>, <<NewId(2), R(1)>> >>
    /\ ibasset[NewId(1)] = << <<NewId(2), R(1)>> >>

\* C13: right after a BankingSystem is constructed, directly or through
\* from_bankingsystem, with_sigma_asset or with_sigma_equity, every bank of
\* it has equity equal to its naive equity.
C13_ConstructedEquityNaive ==
    (ret.op \in {"BankingSystem"} \cup WrapKinds /\ ret.val = None) =>
        \A b \in InSystem : equity[b] = get_naiveequity(b)

\* a derived system made from a solved source system in which bank 1 holds
\* less than its naive equity
C13_Witness ==
    /\ ret.op \in WrapKinds
    /\ ret.val = None
    /\ pc = "done"
    /\ 1 \in SourceBanks
    /\ RLt(equity[1], get_naiveequity(1))
    /\ \A b \in InSystem : equity[b] = get_naiveequity(b)


\* A vector of equities in key order, as the equity attribute of each bank
AsEquity(vec) ==
    [b \in DOMAIN equity |-> IF IndexOf(b) = 0 THEN equity[b] ELSE vec[IndexOf(b)]]

\* C14: with save_history=True and an empty history, one call of
\* fixedpoint_equity that executed k >= 1 iterations leaves k+1 equity
\* vectors in the history: first the vector before the first iteration,
\* then the result of each iteration in order; every entry after the first
\* is the synchronous map of the entry before it, and the last entry is the
\* banks' current equities.
C14_History ==
    (save_history /\ ncalls = 1 /\ pc = "done" /\ time >= 1) =>
        /\ time = Len(errs)
        /\ Len(history) = time + 1
        /\ history[1] = sys_get_naiveequity
        /\ \A j \in 2 .. Len(history) :
              /\ Len(history[j]) = Len(banks)
              /\ \A i \in 1 .. Len(banks) :
                    history[j][i] = EquityMap(banks[i], AsEquity(history[j - 1]))
        /\ history[Len(history)] = get_equity

\* two iterations were recorded and each changed the equities
C14_Witness ==
    /\ save_history /\ ncalls = 1 /\ pc = "done"
    /\ time = 2
    /\ Len(history) = 3
    /\ history[1] # history[2]
    /\ history[2] # history[3]

\* C17: the equities the banks hold after fixedpoint_equity, and the number
\* of iterations it executed, are those of the same call on the system
\* built from the same banks in increasing order of identity: they do not
\* depend on the order of the list passed to the constructor.
C17_OrderIndependent ==
    (ncalls = 1 /\ pc \in {"done", "raised"}) =>
        LET ref == Solve([b \in DOMAIN equity |-> get_naiveequity(b)], 0,
                         InitialErr(tol))
        IN  /\ equity = ref.equity
            /\ time = ref.time
            /\ (pc = "raised") = ref.raised

\* the banks were passed in decreasing order, two iterations ran and the
\* two banks ended with different equities, both changed by the call
C17_Witness ==
    /\ ncalls = 1 /\ pc = "done"
    /\ banks = <<2, 1>>
    /\ time = 2
    /\ equity[1] # equity[2]
    /\ \A b \in Banks : equity[b] # get_naiveequity(b)

\* C18: when the valuation of a bank raises in an iteration of
\* fixedpoint_equity, every bank of the system holds the equity it held at
\* the start of that iteration, also the banks whose new value had already
\* been computed; the equities are those of the last completed iteration.
C18_AllOrNothing ==
    pc = "raised" =>
        /\ get_equity = equity_old
        /\ \A b \in Banks : equity[b] = StartEquity[b]
        /\ time = Len(errs)
        /\ (time = 0 => get_equity = sys_get_naiveequity \/ ncalls > 1)

\* the second bank's valuation raised after the first bank's new equity,
\* different from its old one, had been computed
C18_Witness ==
    /\ pc = "raised"
    /\ Len(equity_new) = 1
    /\ equity_new[1] # equity_old[1]

\* The symmetric relative difference of two equities, 0 for two zeros
Denominator(x, y) == RAdd(RAbs(x), RAbs(y))

SymTerm(x, y) ==
    IF RZero(x) /\ RZero(y)
    THEN R(0)
    ELSE RDiv(RMul(R(2), RAbs(RSub(x, y))), Denominator(x, y))

\* C19: the error of an iteration of fixedpoint_equity is the sum over all
\* banks, not divided by their number, of 2*|old-new|/(|old|+|new|), the
\* term of a bank being 0 when its old and new equity are both zero; the
\* denominator of every other term is not zero, and the error lies between
\* 0 and 2*nbanks.
C19_ErrorMetric ==
    /\ (pc = "loop" /\ time >= 1) =>
          /\ err = SumSeq([i \in 1 .. nbanks |-> SymTerm(equity_old[i], equity_new[i])])
          /\ \A i \in 1 .. nbanks :
                (~RZero(equity_old[i]) \/ ~RZero(equity_new[i])) =>
                    ~RZero(Denominator(equity_old[i], equity_new[i]))
          /\ RLe(R(0), err)
          /\ RLe(err, R(2 * nbanks))
    /\ pc = "idle" => \A x, y \in {R(-1), R(0), R(1)} :
          /\ (~RZero(x) \/ ~RZero(y)) => ~RZero(Denominator(x, y))
          /\ RLe(R(0), ErrTerm(x, y))
          /\ RLe(ErrTerm(x, y), R(1))

\* an iteration of a two-bank system in which one bank stayed at zero
\* equity and the other lost all of its equity: the error is 2, not 1
C19_Witness ==
    /\ pc = "loop" /\ time >= 1 /\ nbanks = 2
    /\ \E i \in 1 .. 2 : RZero(equity_old[i]) /\ RZero(equity_new[i])
    /\ \E i \in 1 .. 2 : RLt(R(0), equity_old[i]) /\ RZero(equity_new[i])
    /\ err = R(2)

\* C15: when fixedpoint_extasset stopped with the error of its last
\* iteration equal to 0, on banks that all use the default valuation of
\* external assets, eval_equity() of every bank returns the bank's current
\* equity: the adjusted external assets make the current equities a fixed
\* point of the equity map.
C15_AdjustGoal ==
    (/\ ret = Result("fixedpoint_extasset", None)
     /\ time >= 1
     /\ RZero(err)
     /\ \A b \in InSystem : exteval[b] = Default /\ ~eval_equity_raises(b)) =>
        \A b \in InSystem : eval_equity(b) = equity[b]

\* C16: on a system whose banks all have sigma_equity = 0 and were created
\* with non-zero external assets, fixedpoint_extasset_sigmaasset ends as
\* fixedpoint_extasset started from the same state does: it raises only if
\* that one raises, executes the same number of iterations, leaves the same
\* external assets, leaves every sigma_asset at 0, and stops with its error
\* within the tolerance whenever the asset-only solver does.
C16_ZeroVolatility ==
    (/\ ret.op = "fixedpoint_extasset_sigmaasset"
     /\ pc \in {"done", "raised"}
     /\ ncalls = 1
     /\ \A b \in InSystem : RZero(sigma_equity[b]) /\ ~RZero(CreatedExtasset[b])) =>
        LET ref == SolveExtasset(CreatedExtasset, 0, InitialErr(tol))
        IN  /\ (pc = "raised") = ref.raised
            /\ time = ref.time
            /\ extasset = ref.extasset
            /\ \A b \in InSystem : RZero(sigma_asset[b])
            /\ RLe(ref.err, tol) => RLe(err, RMul(tol, tol))

\* the attributes of the banks and of the system that no solver assigns
Fixed ==
    <<made, name, extliab, ibliabtot, ibasset, exteval, ibeval, ibeval_lender,
      sigma_equity, built, banks, nbanks, tol, maxiter, save_history, source>>

InEquitySolver == pc \in {"loop", "eval"}
InExtassetSolver == pc = "aloop"
InJointSolver == pc = "jloop"

\* C20: a step of fixedpoint_equity changes no attribute of a bank other
\* than equity and nothing of the system other than the history; a step of
\* fixedpoint_extasset changes no attribute other than extasset; a step of
\* fixedpoint_extasset_sigmaasset none other than extasset and sigma_asset.
\* Names, external and interbank liabilities, edge lists, valuation
\* functions, sigma_equity, the banks of the system and their order, tol
\* and maxiter never change, and the two asset solvers leave every equity
\* as it is.
C20_SolverFrame ==
    [][/\ Fixed' = Fixed
       /\ InEquitySolver => UNCHANGED <<extasset, sigma_asset>>
       /\ ~save_history => UNCHANGED history
       /\ Len(history') >= Len(history)
       /\ SubSeq(history', 1, Len(history)) = history
       /\ InExtassetSolver => UNCHANGED <<equity, sigma_asset, history>>
       /\ InJointSolver => UNCHANGED <<equity, history>>
       /\ \A x \in Objects \ InSystem :
             /\ equity'[x] = equity[x]
             /\ extasset'[x] = extasset[x]
             /\ sigma_asset'[x] = sigma_asset[x]]_vars

\* each solver has changed what it may change: the asset solvers moved the
\* external assets of a bank away from those it was created with (and the
\* joint solver its sigma_asset too) while its equity is its naive equity
\* at creation
C20_Witness ==
    /\ ret = Result("fixedpoint_extasset_sigmaasset", None)
    /\ ncalls = 1
    /\ \E b \in InSystem :
          /\ extasset[b] # CreatedExtasset[b]
          /\ sigma_asset_old # <<>>
          /\ sigma_asset_old[1] # sigma_asset_new[1]
          /\ equity[b] = NaiveEquity(CreatedExtasset[b], extliab[b], ibasset[b],
                                     ibliabtot[b])

\* C21: a successful set_ibasset call on a bank replaces that bank's edge
\* list and sets its equity to extasset - extliab + (sum of the new face
\* values) - ibliabtot, whatever its equity was before; the edge lists and
\* the equities of all other banks, and every other attribute, are
\* unchanged.
C21_SetIbassetResets ==
    [][ret' = Result("set_ibasset", None) =>
          \E b \in Banks :
             /\ \A c \in Banks \ {b} :
                   ibasset'[c] = ibasset[c] /\ equity'[c] = equity[c]
             /\ equity'[b] =
                   RSub(RAdd(RSub(extasset[b], extliab[b]),
                             SumSeq([k \in 1 .. Len(ibasset'[b]) |->
                                        ibasset'[b][k][2]])),
                        ibliabtot[b])
             /\ UNCHANGED <<extasset, extliab, ibliabtot, exteval, ibeval,
                            ibeval_lender, sysVars, solverVars>>]_vars

\* set_ibasset was called after a solve that had moved both banks away from
\* their naive equity: the bank with the new edges is back at its naive
\* equity, the other bank still holds its solved equity
C21_Witness ==
    /\ ret = Result("set_ibasset", None)
    /\ pc = "done" /\ time >= 1
    /\ \E b \in Banks :
          /\ equity_new[IndexOf(b)] # get_naiveequity(b)
          /\ equity[b] = get_naiveequity(b)
          /\ ~RZero(ibliabtot[b])
          /\ ibasset[b] # <<>>
          /\ \A c \in Banks \ {b} :
                equity[c] = equity_new[IndexOf(c)] /\ equity[c] # get_naiveequity(c)

\* A vector of external assets in key order, as the extasset attribute of
\* each bank
AsExtasset(vec) ==
    [x \in DOMAIN extasset |-> IF IndexOf(x) = 0 THEN extasset[x] ELSE vec[IndexOf(x)]]

InAssetCall == ret.op \in {"fixedpoint_extasset", "fixedpoint_extasset_sigmaasset"}

\* C22: in every iteration of fixedpoint_extasset and of
\* fixedpoint_extasset_sigmaasset the new extasset of every bank (and in the
\* joint solver the new sigma_asset) is computed from the external assets
\* and equities all banks held at the start of the iteration, and the banks
\* hold the new values only after all were computed.  Both solvers execute
\* at most maxiter iterations and return None, on tolerance and on an
\* exhausted budget alike; they raise only when a valuation function or the
\* volatility mapping raised, and then nothing was written in the iteration.
C22_AssetSolversSynchronous ==
    InAssetCall =>
        /\ Len(errs) <= maxiter
        /\ time = Len(errs)
        /\ (time >= 1 /\ pc # "raised") =>
              /\ get_extasset = extasset_new
              /\ \A i \in 1 .. Len(banks) :
                    extasset_new[i] = ExtassetMap(banks[i], AsExtasset(extasset_old))
              /\ ret.op = "fixedpoint_extasset_sigmaasset" =>
                    /\ get_sigma_asset = sigma_asset_new
                    /\ \A i \in 1 .. Len(banks) :
                          sigma_asset_new[i] =
                              sigma_asset_simple(equity[banks[i]], extasset_old[i],
                                                 sigma_equity[banks[i]])
        /\ pc = "done" => ret.val = None
        /\ pc = "raised" =>
              /\ get_extasset = extasset_old
              /\ \E i \in 1 .. Len(banks) :
                    \/ eval_extasset_raises(banks[i])
                    \/ /\ ret.op = "fixedpoint_extasset_sigmaasset"
                       /\ eval_sigma_asset_raises(banks[i])

\* the joint solver ran out of its budget of two or more iterations; it
\* changed the external assets of a lender, and its last iteration changed a
\* volatility
C22_Witness ==
    /\ ret = Result("fixedpoint_extasset_sigmaasset", None)
    /\ time = maxiter /\ time >= 2
    /\ ncalls = 1
    /\ \E i \in 1 .. Len(banks) :
          extasset[banks[i]] # CreatedExtasset[banks[i]] /\ ibasset[banks[i]] # <<>>
    /\ \E i \in 1 .. Len(banks) : sigma_asset_new[i] # sigma_asset_old[i]

\* C23: parse_csv in adjacency-matrix mode returns a banking system whose
\* interbank asset matrix has, at every positive entry of the input matrix,
\* the value of that entry, and on which validate_ibasset returns True.
C23_ParseCsvMatrix ==
    ret.op = "parse_csv" =>
        /\ ret.val.raised = None
        /\ \A l, c \in 1 .. 2 :
              RPos(ret.val.input[l][c]) =>
                  get_ibasset_matrix(banks, nbanks)[l][c] = ret.val.input[l][c]
        /\ validate_ibasset = "True"

\* shock_and_solve is about to return, or a valuation function is about to
\* end it with an exception: what the caller finds afterwards
ShockEnds ==
    /\ ret.op = "shock_and_solve"
    /\ \/ pc = "loop" /\ ~LoopCondition
       \/ /\ pc = "eval" /\ Len(equity_new) < Len(banks)
          /\ eval_equity_raises(banks[Len(equity_new) + 1])

ShockedFrom(vec) ==
    [i \in 1 .. Len(banks) |-> RSub(vec[i], ret.val.equity_delta[i])]

ValuationCalled ==
    ret.op \in {"rogers_veraart", "end_lin_dr", "eisenberg_noe", "lin_dr"}

\* C25: every interbank valuation function returns a value within [0,1] on
\* every input on which it returns (a raw value outside the range would have
\* been clamped to the nearest bound, never passed on).
C25_ValuationsClamped ==
    (ValuationCalled /\ ret.val.raised = None) =>
        /\ RLe(R(0), ret.val.value)
        /\ RLe(ret.val.value, R(1))

\* the preconditions of monotone descent: non-negative face values, the
\* default external and lender valuations, and interbank valuations that are
\* non-decreasing in equity with values in [0,1]
MonotoneValuations ==
    /\ FaceValuesNonNegative
    /\ \A b \in Banks :
          /\ exteval[b] = Default
          /\ ibeval_lender[b] = Default
          /\ ibeval[b].fn \in {"default", "furfine", "eisenberg_noe"}

IterationComputed == pc = "eval" /\ Len(equity_new) = Len(banks)

\* C26: on a system constructed with naive equities, non-negative face
\* values, default external and lender valuations and non-decreasing
\* interbank valuations in [0,1], no bank's equity increases in an
\* iteration of fixedpoint_equity: every new equity is at most the equity
\* at the start of the iteration.
C26_MonotoneDescent ==
    (MonotoneValuations /\ IterationComputed) =>
        \A i \in 1 .. Len(banks) : RLe(equity_new[i], equity_old[i])

\* a bank that fell in the first iteration falls again in the second
C26_Witness ==
    /\ MonotoneValuations
    /\ IterationComputed
    /\ time = 1
    /\ \A b \in Banks : ibeval[b].fn \in {"furfine", "eisenberg_noe"}
    /\ history = <<>>
    /\ \E i \in 1 .. Len(banks) :
          /\ RLt(equity_new[i], equity_old[i])
          /\ RLt(equity_old[i], get_naiveequity(banks[i]))

\* what the first call of fixedpoint_equity on the constructed system does
FirstCall ==
    Solve([b \in DOMAIN equity |-> get_naiveequity(b)], 0, InitialErr(tol))

\* the iterations executed by all calls so far, at the end of the first or
\* of the second call
IterationsExecuted == IF ncalls = 1 THEN time ELSE FirstCall.time + time

\* C27: after fixedpoint_equity calls with history recording enabled and no
\* reset in between, the history is one trajectory of the map: it holds as
\* many entries as iterations were executed plus one, and every entry after
\* the first is the synchronous map of the entry before it.
C27_OneTrajectory ==
    (save_history /\ pc = "done" /\ ncalls \in {1, 2} /\ ~FirstCall.raised) =>
        /\ Len(history) = IterationsExecuted + 1
        /\ \A j \in 2 .. Len(history) :
              \A i \in 1 .. Len(banks) :
                  history[j][i] = EquityMap(banks[i], AsEquity(history[j - 1]))

\* C28: after BankingSystem.__init__ on any list of banks, the three indexes
\* banks, banksbyid and banksbyname each hold nbanks banks, b_system[i] is
\* the i-th bank of the list, banksbyname[b.name] is b for every bank b of
\* the list, and iteration (over the keys of banks) yields the list.
C28_Indexes ==
    ret.op = "BankingSystem.__init__" =>
        LET list == ret.val.banks_list
        IN  /\ Len(banks) = nbanks
            /\ Len(ret.val.banksbyid) = nbanks
            /\ Cardinality(DOMAIN ret.val.banksbyname) = nbanks
            /\ \A i \in 1 .. Len(list) :
                  /\ ret.val.banksbyid[i] = list[i]
                  /\ ret.val.banksbyname[name[list[i]]] = list[i]
            /\ banks = list

\* C29: the system with_sigma_asset or with_sigma_equity returns, for any
\* list of volatilities, has as many banks as the source system, in the same
\* order and with the same names, the same tol and maxiter, and the same
\* interbank asset matrix: no bank and no edge of the source is left out.
C29_WrapKeepsBanks ==
    (/\ ret.op \in {"with_sigma_asset", "with_sigma_equity"}
     /\ ret.val.raised = None
     /\ SourceNamesDistinct
     /\ SourceClosed) =>
        /\ nbanks = source.nbanks
        /\ Len(banks) = Len(source.banks)
        /\ \A i \in 1 .. Len(source.banks) :
              i <= Len(banks) /\ name[banks[i]] = name[source.banks[i]]
        /\ get_ibasset_matrix(banks, nbanks)
              = get_ibasset_matrix(source.banks, source.nbanks)

\* the attributes of a source bank that the derived system could reach are
\* left as they are by the step
SourceBankKept(b) ==
    /\ equity'[b] = equity[b]
    /\ extasset'[b] = extasset[b]
    /\ ibasset'[b] = ibasset[b]

\* C30: wrapping a system never changes the source system.  The step that
\* wraps leaves the equity, external assets and edge list of every source
\* bank and the source history as they were, creates banks that are no
\* source banks and whose edges point to no source bank; every later step
\* on the derived system (a solve, set_equity, set_extasset, set_history)
\* leaves the source banks and the source history unchanged.
C30_SourceUnchanged ==
    [][/\ (source = NoSource /\ source' # NoSource) =>
            /\ source'.banks = banks
            /\ source'.history = history
            /\ \A i \in 1 .. Len(banks) : SourceBankKept(banks[i])
            /\ \A i \in 1 .. Len(banks') :
                  /\ banks'[i] \notin InSystem
                  /\ \A k \in 1 .. Len(ibasset'[banks'[i]]) :
                        ibasset'[banks'[i]][k][1] \notin InSystem
       /\ source # NoSource =>
            /\ source' = source
            /\ \A b \in SourceBanks : SourceBankKept(b)]_vars

\* a source system solved in two recorded iterations was wrapped, and the
\* derived system is one iteration into its own solve, which moved a bank
\* off its naive equity and recorded two entries in the new history; the
\* source banks hold the last entry of the source history
C30_Witness ==
    /\ source # NoSource
    /\ Len(source.history) = 3
    /\ source.history[1] # source.history[2]
    /\ ncalls = 2
    /\ pc = "loop"
    /\ time = 1
    /\ Len(history) = 2
    /\ \A i \in 1 .. Len(banks) :
          equity[source.banks[i]] = source.history[3][i]
    /\ \E i \in 1 .. Len(banks) : equity[banks[i]] # get_naiveequity(banks[i])

====
